---- MODULE Spec2Model ----
(***************************************************************************)
(* CalDom 1.0.6: the reactive component controller (react, the frame      *)
(* scheduler, the state watch) and the reconciler (_replace, _copyProps)  *)
(* of src/src/caldom.js, over a small heap model of the host DOM.         *)
(***************************************************************************)
EXTENDS Integers, Sequences, FiniteSets, TLC

\* ------------------------------------------------------------------ bounds

\* Most child nodes a generated tree node has.
MaxKids == 2

\* ------------------------------------------------------------ host values

\* null / undefined as a reference (a node, a component, a frame handle).
Null == 0

\* document.body: the connected root every live tree hangs under.
Body == 1

\* Node.ELEMENT_NODE and Node.TEXT_NODE.
ElementNode == 1
TextNode == 3

\* getAttribute() of a missing attribute.
NoAttr == "null"

\* A property a host object does not have.
Undef == "undefined"

\* The version marker, one ordinary attribute, and the attribute that holds
\* what element.style is given.
AttrNames == {"caldom-v", "class", "style"}

NoAttrs == [a \in AttrNames |-> NoAttr]

\* The properties _copyProps reads and writes.
NoProps == [value |-> Undef, checked |-> Undef, indeterminate |-> Undef,
            selected |-> Undef, data |-> Undef]

InputProps == [value |-> "", checked |-> "false", indeterminate |-> "false",
               selected |-> Undef, data |-> Undef]

\* The components of the page.
Comps == {1, 2}

\* ------------------------------------------------------------ sequences

SeqRemove(s, x) == SelectSeq(s, LAMBDA y : y # x)

IndexOf(s, x) == CHOOSE i \in 1..Len(s) : s[i] = x

\* a[0] = x on a JavaScript array.
SetFirst(s, x) == IF Len(s) = 0 THEN <<x>> ELSE [s EXCEPT ![1] = x]

\* v handed to F as a value: an argument or a local that is computed once,
\* as a JavaScript call computes its arguments before the body runs.
With(v, F(_)) == CHOOSE r \in {F(x) : x \in {v}} : TRUE

\* -------------------------------------------------------------- the DOM

\* A fresh node id: the smallest id the heap does not hold.
NextId(d) == CHOOSE i \in 1..(Cardinality(DOMAIN d) + 1) : i \notin DOMAIN d

\* A node as createElement / createTextNode leave it.
NewNode(type, tag, attrs, text, props) ==
    [type |-> type, tag |-> tag, attrs |-> attrs, text |-> text,
     kids |-> <<>>, parent |-> Null, h |-> Null, orig |-> Null, p |-> props]

\* The node taken out of its parent's child list (a node has one parent).
Detach(d, n) ==
    LET par == d[n].parent
    IN  IF par = Null THEN d
        ELSE [d EXCEPT ![par].kids = SeqRemove(@, n), ![n].parent = Null]

\* An appendChild that inserts nothing.
AppendChildNowhere(d, par, n) == d

\* Node.appendChild: moves the node when it is already in a tree.
AppendChild(d, par, n) ==
    LET d1 == Detach(d, n)
    IN  [d1 EXCEPT ![par].kids = Append(@, n), ![n].parent = par]

\* Node.replaceChild(new, old) on old's parent.
ReplaceChild(d, par, new, old) ==
    LET d1 == Detach(d, new)
        i == IndexOf(d1[par].kids, old)
    IN  [d1 EXCEPT ![par].kids = [@ EXCEPT ![i] = new],
                   ![new].parent = par,
                   ![old].parent = Null]

\* Node.removeChild.
RemoveChild(d, par, n) ==
    [d EXCEPT ![par].kids = SeqRemove(@, n), ![n].parent = Null]

RECURSIVE IsConnected(_, _)
\* Node.isConnected: the node is the document body or hangs under it.
IsConnected(d, n) ==
    \/ n = Body
    \/ /\ n # Null
       /\ d[n].parent # Null
       /\ IsConnected(d, d[n].parent)

RECURSIVE Struct(_, _)
\* What isEqualNode compares: type, name, attributes, text, children in order.
Struct(d, n) ==
    [type |-> d[n].type, tag |-> d[n].tag, attrs |-> d[n].attrs,
     text |-> d[n].text,
     kids |-> [i \in 1..Len(d[n].kids) |-> Struct(d, d[n].kids[i])]]

\* Node.isEqualNode.
IsEqualNode(d, a, b) == Struct(d, a) = Struct(d, b)

\* Element children (Element.children), in order.
ElemKids(d, n) == SelectSeq(d[n].kids, LAMBDA k : d[k].type = ElementNode)

\* Object.getPrototypeOf(node).hasOwnProperty("value").
HasValueProp(node) == node.type = ElementNode /\ node.tag = "INPUT"

\* ------------------------------------------------- lifecycle hook calls

\* The machine a call runs on: the heap, the components, the hook and callback
\* invocations so far, and whether a host exception has been raised.
\* rc records the outermost _replace call of the operation: its arguments, the
\* heap and components it started from, and what it returned.
NoCall == [cand |-> Null, live |-> Null, dom |-> <<>>, comp |-> <<>>, ret |-> Null]

Machine(d, cs, q, pk) ==
    [dom |-> d, comp |-> cs, raf |-> q, proto |-> pk, log |-> <<>>, err |-> FALSE,
     rc |-> NoCall]

\* The machine as a top-level _replace(new, old, ...) call finds it.
Entering(m, new, old) ==
    [m EXCEPT !.rc = [cand |-> new, live |-> old, dom |-> m.dom, comp |-> m.comp,
                      ret |-> Null]]

\* One invocation: a lifecycle hook, update, render, a frame request or a tree
\* mutation made by the reconciler, with the state, ledger and count it was
\* handed (update, render) or the node it took out (removeChild, replaceChild).
Event(ev, c, arg) ==
    [ev |-> ev, c |-> c, arg |-> arg,
     st |-> <<>>, keys |-> <<>>, n |-> 0, node |-> Null]

Raise(m) == [m EXCEPT !.err = TRUE]

\* _willUnmount with the hook call left out.
_willUnmountSilent(m, c, directly_removed) == m

\* _willUnmount(directly_removed): calls the willUnmount hook.
_willUnmount(m, c, directly_removed) ==
    [m EXCEPT !.log = Append(@, Event("willUnmount", c, directly_removed))]

\* A _didUnmount that tells the hook of a direct removal whoever calls.
_didUnmountDirect(m, c, directly_removed) ==
    [m EXCEPT !.comp[c].mounted = FALSE,
              !.log = Append(@, Event("didUnmount", c, "true"))]

\* _didUnmount(directly_removed): clears _mounted, calls the didUnmount hook.
_didUnmount(m, c, directly_removed) ==
    [m EXCEPT !.comp[c].mounted = FALSE,
              !.log = Append(@, Event("didUnmount", c, directly_removed))]

\* ------------------------------------------------------------ _copyProps

\* The property copies of one node pair without the one of _data.
CopyOwnPropsNoData(d, new, old) ==
    LET pn == d[new].p
        po == d[old].p
        p1 == IF HasValueProp(d[old])
              THEN [po EXCEPT !.value = pn.value, !.checked = pn.checked,
                              !.indeterminate = pn.indeterminate]
              ELSE po
    IN  [d EXCEPT ![old].p = [p1 EXCEPT !.selected = pn.selected]]

\* The property copies of one node pair (value, checked, indeterminate only
\* when the live node's prototype owns "value"; selected and _data always).
CopyOwnProps(d, new, old) ==
    LET pn == d[new].p
        po == d[old].p
        p1 == IF HasValueProp(d[old])
              THEN [po EXCEPT !.value = IF @ # pn.value THEN pn.value ELSE @,
                              !.checked = IF @ # pn.checked THEN pn.checked ELSE @,
                              !.indeterminate = IF @ # pn.indeterminate
                                                THEN pn.indeterminate ELSE @]
              ELSE po
        p2 == [p1 EXCEPT !.selected = IF @ # pn.selected THEN pn.selected ELSE @,
                         !.data = IF @ # pn.data THEN pn.data ELSE @]
    IN  [d EXCEPT ![old].p = p2]

RECURSIVE CopyChildProps(_, _, _, _)
\* The loop over new_dom_node.children: child i of the new node onto child i of
\* the old one, without a third argument (so no deeper). A missing old child
\* makes Object.getPrototypeOf(undefined) raise.
CopyChildProps(m, newKids, oldKids, i) ==
    IF m.err \/ i > Len(newKids) THEN m
    ELSE IF i > Len(oldKids) THEN Raise(m)
    ELSE With([m EXCEPT !.dom = CopyOwnProps(@, newKids[i], oldKids[i])],
              LAMBDA m1 : CopyChildProps(m1, newKids, oldKids, i + 1))

\* _copyProps(new_dom_node, old_dom_node, enumerate_children): the pair's own
\* properties, then the loop when enumerate_children is given, which the log
\* keeps with the numbers of element children of the two nodes.
_copyProps(m, new, old, enumerate_children) ==
    IF m.err THEN m
    ELSE With([m EXCEPT !.dom = CopyOwnProps(@, new, old)],
              LAMBDA m1 : IF enumerate_children
                          THEN CopyChildProps(
                                   [m1 EXCEPT !.log = Append(@,
                                       [Event("_copyProps", Null, Undef)
                                           EXCEPT !.node = old,
                                                  !.n = Len(ElemKids(m1.dom, new)),
                                                  !.st = <<Len(ElemKids(m1.dom, old))>>])],
                                   ElemKids(m1.dom, new), ElemKids(m1.dom, old), 1)
                          ELSE m1)

\* -------------------------------------------------------------- _replace

\* soft_replacable without the comparison of the caldom-v values.
SoftReplacableAnyVersion(d, new, old) ==
    /\ d[new].type = ElementNode
    /\ d[new].tag = d[old].tag
    /\ d[new].h = d[old].h

\* soft_replacable: an element of the same tag, the same owning component and
\* the same caldom-v value.
SoftReplacable(d, new, old) ==
    /\ d[new].type = ElementNode
    /\ d[new].tag = d[old].tag
    /\ d[new].h = d[old].h
    /\ d[new].attrs["caldom-v"] = d[old].attrs["caldom-v"]

\* The first attribute loop alone: nothing is removed.
SyncAttrsKeeping(d, new, old) ==
    LET na == d[new].attrs
        oa == d[old].attrs
    IN  [d EXCEPT ![old].attrs = [a \in AttrNames |->
                                     IF na[a] # NoAttr /\ oa[a] # na[a]
                                     THEN na[a] ELSE oa[a]]]

\* The two attribute loops: every attribute of the new node whose value differs
\* is set on the old one, every attribute the new node lacks is removed.
SyncAttrs(d, new, old) ==
    LET na == d[new].attrs
        oa == d[old].attrs
        set == [a \in AttrNames |->
                   IF na[a] # NoAttr /\ oa[a] # na[a] THEN na[a] ELSE oa[a]]
        rem == [a \in AttrNames |->
                   IF set[a] # NoAttr /\ na[a] = NoAttr THEN NoAttr ELSE set[a]]
    IN  [d EXCEPT ![old].attrs = rem]

RECURSIVE _replace(_, _, _, _)
RECURSIVE ReplaceChildren(_, _, _, _)
RECURSIVE RemoveTrailing(_, _, _)

\* A trailing loop that removes nothing.
RemoveTrailingNone(m, old, i) == m

\* The loop over the new node's children (a snapshot), each against the child
\* the old node holds at that index now (the live list); a returned node that
\* has an owning component becomes that component's elems[0].
ReplaceChildren(m, newKids, old, i) ==
    IF m.err \/ i > Len(newKids) THEN m
    ELSE LET oldKids == m.dom[old].kids
             oldKid == IF i <= Len(oldKids) THEN oldKids[i] ELSE Null
             Returned(r) ==
                 LET hc == IF r.ret = Null THEN Null ELSE r.m.dom[r.ret].h
                 IN  IF ~r.m.err /\ hc # Null
                     THEN [r.m EXCEPT !.comp[hc].elems = SetFirst(@, r.ret)]
                     ELSE r.m
         IN  With(_replace(m, newKids[i], oldKid, old),
                  LAMBDA r : With(Returned(r),
                      LAMBDA m1 : ReplaceChildren(m1, newKids, old, i + 1)))

\* The loop removing the old node's children from index i on: a child that has
\* an owning component gets _willUnmount() before and _didUnmount() after.
RemoveTrailing(m, old, i) ==
    IF m.err \/ i > Len(m.dom[old].kids) THEN m
    ELSE LET child == m.dom[old].kids[i]
             hc == m.dom[child].h
             m1 == IF hc # Null THEN _willUnmount(m, hc, Undef) ELSE m
             m2 == [m1 EXCEPT !.dom = RemoveChild(@, old, child),
                              !.log = Append(@, [Event("removeChild", hc, Undef)
                                                   EXCEPT !.node = child])]
             m3 == IF hc # Null THEN _didUnmount(m2, hc, Undef) ELSE m2
         IN  With(m3, LAMBDA m4 : RemoveTrailing(m4, old, i))

\* The soft-replace branch: children, then attributes, then properties.
SoftReplace(m, new, old) ==
    LET equal == IsEqualNode(m.dom, new, old)
        newKids == m.dom[new].kids
        new_dom_has_child_nodes == Len(newKids) > 0
        walk == ~equal /\ (new_dom_has_child_nodes \/ Len(m.dom[old].kids) > 0)
        copy_props_recursively == ~(walk /\ new_dom_has_child_nodes)
        Children(m0) == IF walk /\ new_dom_has_child_nodes
                        THEN ReplaceChildren(m0, newKids, old, 1)
                        ELSE m0
        Trailing(m1) == IF walk
                        THEN RemoveTrailing(m1, old,
                                 IF new_dom_has_child_nodes THEN Len(newKids) + 1 ELSE 1)
                        ELSE m1
        Attributes(m2) == IF ~m2.err /\ ~equal /\ ~IsEqualNode(m2.dom, new, old)
                          THEN [m2 EXCEPT !.dom = SyncAttrs(@, new, old)]
                          ELSE m2
    IN  With(Children(m), LAMBDA m1 :
        With(Trailing(m1), LAMBDA m2 :
        With(Attributes(m2), LAMBDA m3 :
            _copyProps(m3, new, old, copy_props_recursively))))

\* The branch taken when the pair is not soft-replaceable and not equal: a
\* non-element's nodeValue is assigned to the old node (which only a text node
\* keeps); an element is swapped in with replaceChild on old's parentNode,
\* between the unmount calls of old's owning component.
HardReplace(m, new, old) ==
    IF m.dom[new].type # ElementNode
    THEN [m |-> IF m.dom[old].type = TextNode
                THEN [m EXCEPT !.dom[old].text = m.dom[new].text]
                ELSE m,
          ret |-> Null]
    ELSE LET hc == m.dom[old].h
             m1 == IF hc # Null THEN _willUnmount(m, hc, Undef) ELSE m
             par == m1.dom[old].parent
         IN  IF par = Null
             THEN [m |-> Raise(m1), ret |-> Null]
             ELSE LET m2 == [m1 EXCEPT !.dom = ReplaceChild(@, par, new, old),
                                       !.log = Append(@, [Event("replaceChild", hc, Undef)
                                                            EXCEPT !.node = old])]
                      m3 == IF hc # Null THEN _didUnmount(m2, hc, Undef) ELSE m2
                  IN  [m |-> m3, ret |-> new]

\* _replace without the soft-replace branch: every unequal pair is swapped.
_replaceSwapping(m, new_dom_node, old_dom_node, old_dom_node_parent) ==
    IF m.err \/ new_dom_node = Null THEN [m |-> m, ret |-> Null]
    ELSE LET new == IF m.dom[new_dom_node].orig # Null
                    THEN m.dom[new_dom_node].orig
                    ELSE new_dom_node
         IN  IF old_dom_node = Null
             THEN [m |-> [m EXCEPT !.dom = AppendChild(@, old_dom_node_parent, new)],
                   ret |-> new]
             ELSE IF ~IsEqualNode(m.dom, new, old_dom_node)
             THEN HardReplace(m, new, old_dom_node)
             ELSE [m |-> m, ret |-> Null]

\* _replace(new_dom_node, old_dom_node, old_dom_node_parent): the machine after
\* the call and the node it returns.
_replace(m, new_dom_node, old_dom_node, old_dom_node_parent) ==
    IF m.err \/ new_dom_node = Null THEN [m |-> m, ret |-> Null]
    ELSE LET new == IF m.dom[new_dom_node].orig # Null
                    THEN m.dom[new_dom_node].orig
                    ELSE new_dom_node
             old == old_dom_node
         IN  IF old = Null
             THEN [m |-> [m EXCEPT !.dom = AppendChild(@, old_dom_node_parent, new)],
                   ret |-> new]
             ELSE IF SoftReplacable(m.dom, new, old)
             THEN [m |-> SoftReplace(m, new, old), ret |-> Null]
             ELSE IF ~IsEqualNode(m.dom, new, old)
             THEN HardReplace(m, new, old)
             ELSE [m |-> m, ret |-> Null]

\* ----------------------------------------------------------- components

\* The keys of a component's state, and the key a zero-argument react() writes
\* into the ledger (_state_changed_key is undefined there).
Keys == {"a", "b"}
LedgerKeys == Keys \cup {Undef}

\* A ledger entry: no such key, or the value stored ("true", "false", undefined).
NoEntry == "-"
EmptyLedger == [k \in LedgerKeys |-> NoEntry]

\* A state: which keys it holds.
States == [Keys -> BOOLEAN]

\* The properties of the objects nested in the state, each named by the keys
\* that lead to it: state.o.a, state.o.o.a, state._p.a, and state.k.a where
\* state.k is a CalDom instance.
DeepPaths == {<<"o", "a">>, <<"o", "o", "a">>, <<"_p", "a">>, <<"k", "a">>}

\* A CalDom instance after construction and react(state): not mounted, no frame
\* requested, the ledger still the prototype's object, the count the prototype's
\* 0, the accessors the prototype's single-element ones (multiple is set by
\* _setMultipleMode).
NewComp(render, update, watched, elems) ==
    [elems |-> elems, mounted |-> FALSE, multiple |-> FALSE,
     render |-> render, update |-> update, watched |-> watched,
     state |-> [k \in Keys |-> FALSE],
     deep |-> [path \in DeepPaths |-> FALSE],
     z |-> Null, own |-> FALSE, keys |-> EmptyLedger, count |-> 0, v |-> <<>>]

\* this._watch_state_changed_keys as the instance reads it: its own object once
\* _didUpdate has assigned one, the prototype's shared object before.
Ledger(m, c) == IF m.comp[c].own THEN m.comp[c].keys ELSE m.proto

\* A _didUpdate that calls the hook and resets nothing.
_didUpdateKeeping(m, c) ==
    [m EXCEPT !.log = Append(@, [Event("didUpdate", c, Undef)
                                   EXCEPT !.keys = Ledger(m, c),
                                          !.n = m.comp[c].count])]

\* _didUpdate: a fresh ledger and a zero count on the instance, then the hook.
_didUpdate(m, c) ==
    LET m1 == [m EXCEPT !.comp[c].own = TRUE,
                        !.comp[c].keys = EmptyLedger,
                        !.comp[c].count = 0]
    IN  [m1 EXCEPT !.log = Append(@, [Event("didUpdate", c, Undef)
                                        EXCEPT !.keys = Ledger(m1, c),
                                               !.n = m1.comp[c].count])]

\* ----------------------------------------------------- generated trees

\* A tree as a render function or a page author writes it.
Txt(s) == [type |-> TextNode, tag |-> "#text", attrs |-> NoAttrs, text |-> s,
           h |-> Null, p |-> NoProps, kids |-> <<>>]

El(tag, attrs, h, kids) ==
    [type |-> ElementNode, tag |-> tag, attrs |-> attrs, text |-> "null",
     h |-> h, p |-> IF tag = "INPUT" THEN InputProps ELSE NoProps, kids |-> kids]

\* render() returning false.
Falsy == [Txt("") EXCEPT !.type = 0]

RECURSIVE Build(_, _, _)
RECURSIVE BuildKids(_, _, _, _)

\* The tree t as it stands on the heap under par after earlier renders: every
\* node with the owner the tree names.
Build(d, t, par) ==
    LET id == NextId(d)
        node == [NewNode(t.type, t.tag, t.attrs, t.text, t.p)
                    EXCEPT !.h = t.h, !.parent = par]
        d1 == IF par = Null THEN d @@ (id :> node)
              ELSE [d EXCEPT ![par].kids = Append(@, id)] @@ (id :> node)
    IN  With(d1, LAMBDA d2 : [dom |-> BuildKids(d2, t.kids, id, 1), id |-> id])

BuildKids(d, ks, par, i) ==
    IF i > Len(ks) THEN d
    ELSE With(Build(d, ks[i], par).dom, LAMBDA d1 : BuildKids(d1, ks, par, i + 1))

RECURSIVE CloneNode(_, _, _)
RECURSIVE CloneKids(_, _, _, _)

\* Node.cloneNode(true): type, name, attributes, text, the value and checked
\* state and the children are copied; expando properties (_h, _data,
\* _original_root) are not.
CloneNode(d, n, par) ==
    LET id == NextId(d)
        src == d[n]
        node == [NewNode(src.type, src.tag, src.attrs, src.text,
                         [src.p EXCEPT !.data = Undef])
                    EXCEPT !.parent = par]
        d1 == IF par = Null THEN d @@ (id :> node)
              ELSE [d EXCEPT ![par].kids = Append(@, id)] @@ (id :> node)
    IN  With(d1, LAMBDA d2 : [dom |-> CloneKids(d2, src.kids, id, 1), id |-> id])

CloneKids(d, ks, par, i) ==
    IF i > Len(ks) THEN d
    ELSE With(CloneNode(d, ks[i], par).dom, LAMBDA d1 : CloneKids(d1, ks, par, i + 1))

\* The page before any tree is added: the body alone.
EmptyPage == (Body :> NewNode(ElementNode, "BODY", NoAttrs, "null", NoProps))

\* Roots: a DIV (bare, with a version marker, with one class or another), an
\* INPUT, and two text nodes.
RootAttrs == {NoAttrs, [NoAttrs EXCEPT !["caldom-v"] = "1"],
              [NoAttrs EXCEPT !["class"] = "x"], [NoAttrs EXCEPT !["class"] = "y"]}

RootKinds ==
    {El("DIV", a, Null, <<>>) : a \in RootAttrs}
    \cup {El("INPUT", NoAttrs, Null, <<>>), Txt("a"), Txt("b")}

\* Children: a text node, a DIV, the root of child component 2.
KidKinds == {Txt("a"), El("DIV", NoAttrs, Null, <<>>), El("DIV", NoAttrs, 2, <<>>)}

\* A component has one root: at most one child of a tree is component 2's.
KidSeqs ==
    {ks \in UNION {[1..n -> KidKinds] : n \in 0..MaxKids} :
        Cardinality({i \in DOMAIN ks : ks[i].h = 2}) <= 1}

\* The trees a render function or a replace callback returns.
Trees ==
    {[r EXCEPT !.kids = ks] : r \in {x \in RootKinds : x.type = ElementNode},
                              ks \in KidSeqs}
    \cup {x \in RootKinds : x.type = TextNode}

\* The trees a page holds: the root rendered by component 1, or a bare DIV or
\* text node that no component has rendered yet.
LiveTrees ==
    {[t EXCEPT !.h = 1] : t \in {x \in Trees : x.type = ElementNode}}
    \cup {t \in Trees : t.type = TextNode \/ (t.attrs = NoAttrs /\ t.tag = "DIV")}

\* No callback writes to the state.
NoMut == "none"

\* What the callbacks of one operation do: the tree each component's render
\* returns (or Falsy), what each component's update returns, and the callback
\* (if any) that writes to its component's state while it runs.
Input(shape, upd) == [shape |-> shape, upd |-> upd, mut |-> NoMut]

\* ----------------------------------------------------------------- react

RECURSIVE ReactPass(_, _, _, _)
RECURSIVE Reenter(_, _, _, _)
RECURSIVE RenderTree(_, _, _, _)
RECURSIVE RenderKids(_, _, _, _, _)
RECURSIVE InsertComponent(_, _, _, _)

\* insertBefore for one CalDom item that is a component, appended to elem:
\* _willMount (the hook unless mounted, then react in mounting mode), the
\* insertion of _v or elems, _v cleared, _didMount (the flag, then the hook
\* unless it was mounted).
InsertComponent(m, elem, c, inp) ==
    LET cc == m.comp[c]
        WillMount(m0) ==
            IF cc.render \/ cc.update
            THEN ReactPass(
                     IF ~cc.mounted
                     THEN [m0 EXCEPT !.log = Append(@, Event("willMount", c, Undef))]
                     ELSE m0,
                     c, TRUE, inp)
            ELSE m0
        Inserted(m1) ==
            LET new_elems == IF m1.comp[c].v # <<>> THEN m1.comp[c].v
                             ELSE m1.comp[c].elems
                m2 == IF new_elems = <<>> THEN m1
                      ELSE [m1 EXCEPT !.dom = AppendChild(@, elem, new_elems[1]),
                                      !.log = Append(@, [Event("appendChild", c, Undef)
                                                           EXCEPT !.node = new_elems[1]])]
                already_mounted == m2.comp[c].mounted
                m3 == [m2 EXCEPT !.comp[c].v = <<>>, !.comp[c].mounted = TRUE]
            IN  IF m1.err THEN m1
                ELSE IF already_mounted THEN m3
                ELSE [m3 EXCEPT !.log = Append(@, Event("didMount", c, Undef))]
    IN  With(WillMount(m), Inserted)

\* The tree a render function (or a replace callback) builds: the root is
\* created with its attributes, then each child is appended in order: a text
\* node, an element, or a component (a child tree naming an owner).
RenderTree(m, t, par, inp) ==
    IF m.err THEN [m |-> m, id |-> Null]
    ELSE IF t.h # Null /\ par # Null
    THEN [m |-> InsertComponent(m, par, t.h, inp), id |-> Null]
    ELSE LET id == NextId(m.dom)
             node == [NewNode(t.type, t.tag, t.attrs, t.text, t.p) EXCEPT !.parent = par]
             d1 == IF par = Null THEN m.dom @@ (id :> node)
                   ELSE [m.dom EXCEPT ![par].kids = Append(@, id)] @@ (id :> node)
         IN  With([m EXCEPT !.dom = d1],
                  LAMBDA m1 : [m |-> RenderKids(m1, t.kids, id, inp, 1), id |-> id])

RenderKids(m, ks, par, inp, i) ==
    IF i > Len(ks) THEN m
    ELSE With(RenderTree(m, ks[i], par, inp).m,
              LAMBDA m1 : RenderKids(m1, ks, par, inp, i + 1))

\* An update condition that does not look for the first render's marker.
CallUpdateUnmarked(d, cc, is_parent_re_react_call) ==
    ~is_parent_re_react_call /\ cc.update

\* The condition under which the pass calls update: not the parent-triggered
\* call, an update function, and no render function or a first element that
\* carries _h (the first render is done).
CallUpdate(d, cc, is_parent_re_react_call) ==
    /\ ~is_parent_re_react_call
    /\ cc.update
    /\ \/ ~cc.render
       \/ Len(cc.elems) > 0 /\ d[cc.elems[1]].h # Null

\* react from "_this._z = null" on: the pass. mounting is the call made by
\* _willMount; every other call comes from a frame or from react(state). A call
\* that gets past the mounted check is logged as a pass, or as a stage when it
\* is the parent-triggered call that only stages a clone; an update event
\* carries what update returned, a render event whether render returned a node.
ReactPass(m, c, mounting, inp) ==
    LET m0 == [m EXCEPT !.comp[c].z = Null]
        cc == m0.comp[c]
        current_first_elem == IF Len(cc.elems) > 0 THEN cc.elems[1] ELSE Null
        has_first_elem == current_first_elem # Null
        is_parent_re_react_call == cc.mounted /\ mounting
        m1 == [m0 EXCEPT !.comp[c].mounted = IF ~mounting THEN TRUE ELSE @,
                         !.log = Append(@, [Event(IF is_parent_re_react_call
                                                  THEN "stage" ELSE "pass",
                                                  c, Undef)
                                              EXCEPT !.st = cc.state,
                                                     !.keys = Ledger(m0, c),
                                                     !.n = cc.count])]
        call_update == CallUpdate(m1.dom, cc, is_parent_re_react_call)
        m2 == IF call_update
              THEN Reenter([m1 EXCEPT !.log = Append(@, [Event("update", c,
                                                               IF inp.upd[c] THEN "true"
                                                               ELSE "false")
                                                          EXCEPT !.st = cc.state,
                                                                 !.keys = Ledger(m1, c),
                                                                 !.n = cc.count])],
                           c, inp, "update")
              ELSE m1
        m3 == Reenter([m2 EXCEPT !.log = Append(@, [Event("render", c,
                                                            IF inp.shape[c] = Falsy
                                                            THEN "false" ELSE "node")
                                                      EXCEPT !.st = cc.state])],
                      c, inp, "render")
    IN  IF m.err THEN m
        ELSE IF /\ ~cc.mounted
                /\ ~mounting
                /\ ~(has_first_elem /\ IsConnected(m0.dom, current_first_elem))
        THEN m0
        ELSE IF call_update /\ ~inp.upd[c]
        THEN Reenter(_didUpdate(m2, c), c, inp, "didUpdate")
        ELSE IF is_parent_re_react_call
        THEN IF ~has_first_elem THEN Raise(m2)
             ELSE With(CloneNode(m2.dom, current_first_elem, Null), LAMBDA cl :
                      [m2 EXCEPT !.dom = [cl.dom EXCEPT ![cl.id].h = c,
                                                        ![cl.id].orig = current_first_elem],
                                 !.comp[c].v = <<cl.id>>])
        ELSE IF ~cc.render THEN Raise(m2)
        ELSE IF inp.shape[c] = Falsy THEN m3
        ELSE LET Rendered(r) ==
                     LET m4 == [r.m EXCEPT !.dom[r.id].h = c]
                         Replaced(rr) ==
                             LET m5 == [rr.m EXCEPT !.rc.ret = rr.ret]
                                 m6 == IF rr.ret # Null
                                       THEN [m5 EXCEPT !.comp[c].elems = SetFirst(@, rr.ret)]
                                       ELSE m5
                             IN  IF rr.m.err THEN m5
                                 ELSE Reenter(_didUpdate(m6, c), c, inp, "didUpdate")
                     IN  IF r.m.err THEN r.m
                         ELSE IF ~has_first_elem
                         THEN Reenter(_didUpdate([m4 EXCEPT !.comp[c].elems = <<r.id>>], c),
                                      c, inp, "didUpdate")
                         ELSE With(_replace(Entering(m4, r.id, current_first_elem),
                                            r.id, current_first_elem, current_first_elem),
                                   Replaced)
             IN  With(RenderTree(m3, inp.shape[c], Null, inp), Rendered)

\* What a render function returns when nothing depends on it.
DefaultShape == El("DIV", NoAttrs, Null, <<>>)

\* The callbacks' results when nothing depends on them.
DefaultInput == [shape |-> [c \in Comps |-> DefaultShape],
                 upd |-> [c \in Comps |-> FALSE],
                 mut |-> NoMut]

\* A scheduling branch that requests a frame whether or not one is pending.
ReactScheduleAlways(m, c, is_zero_arguments, key, is_available) ==
    [m EXCEPT !.comp[c].z = 1,
              !.raf = Append(@, c),
              !.log = Append(@, Event("requestAnimationFrame", c, Undef))]

\* A scheduling branch that falls through to the pass.
ReactScheduleSync(m, c, is_zero_arguments, key, is_available) ==
    ReactPass(m, c, FALSE, DefaultInput)

\* A scheduling branch that keeps the handle and requests no frame.
ReactScheduleNoFrame(m, c, is_zero_arguments, key, is_available) ==
    [m EXCEPT !.comp[c].z = 1]

\* A ledger recording that forgets the keys recorded before.
ReactScheduleForgetful(m, c, is_zero_arguments, key, is_available) ==
    LET cc == m.comp[c]
        m1 == IF cc.update
              THEN LET mc == IF is_zero_arguments THEN m
                             ELSE [m EXCEPT !.comp[c].count = @ + 1]
                   IN  IF cc.own
                       THEN [mc EXCEPT !.comp[c].keys = [EmptyLedger EXCEPT ![key] = is_available]]
                       ELSE [mc EXCEPT !.proto = [EmptyLedger EXCEPT ![key] = is_available]]
              ELSE m
    IN  IF cc.z # Null THEN m1
        ELSE [m1 EXCEPT !.comp[c].z = 1,
                        !.raf = Append(@, c),
                        !.log = Append(@, Event("requestAnimationFrame", c, Undef))]

\* The scheduling branch of react (a watch callback, or react() with no
\* argument): with an update function the count is incremented (not for the
\* zero-argument call) and the key is stored in the ledger; then, unless a frame
\* is already requested (_z), one is requested.
ReactSchedule(m, c, is_zero_arguments, key, is_available) ==
    LET cc == m.comp[c]
        m1 == IF cc.update
              THEN LET mc == IF is_zero_arguments THEN m
                             ELSE [m EXCEPT !.comp[c].count = @ + 1]
                   IN  IF cc.own
                       THEN [mc EXCEPT !.comp[c].keys[key] = is_available]
                       ELSE [mc EXCEPT !.proto[key] = is_available]
              ELSE m
    IN  IF cc.z # Null THEN m1
        ELSE [m1 EXCEPT !.comp[c].z = 1,
                        !.raf = Append(@, c),
                        !.log = Append(@, Event("requestAnimationFrame", c, Undef))]

\* The call onSetCallback(k, flag) as the log keeps it: the key with its flag,
\* and the state the callback finds.
OnSetCallback(c, k, flag, st) ==
    [Event("onSetCallback", c, flag) EXCEPT !.st = st,
                                            !.keys = [EmptyLedger EXCEPT ![k] = flag]]

\* A proxy that calls back before it writes or deletes.
WatchSetCallbackFirst(m, c, k, is_available) ==
    LET flag == IF is_available THEN "true" ELSE "false"
        called == [m EXCEPT !.log = Append(@, OnSetCallback(c, k, flag, m.comp[c].state))]
    IN  IF m.comp[c].watched = "false"
        THEN [m EXCEPT !.comp[c].state[k] = is_available]
        ELSE ReactSchedule([called EXCEPT !.comp[c].state[k] = is_available],
                           c, FALSE, k, flag)

\* component.state[k] = value (is_available) or delete component.state[k]. A
\* state that is not watched is a plain object. On a watched one the proxy's
\* trap writes (obj[key] = value) or deletes (delete obj[key]) and then calls
\* onSetCallback(key, true) or (key, false), which is
\* react(undefined, undefined, true, key, flag).
WatchSet(m, c, k, is_available) ==
    LET flag == IF is_available THEN "true" ELSE "false"
        written == [m EXCEPT !.comp[c].state[k] = is_available]
    IN  IF m.comp[c].watched = "false" THEN written
        ELSE ReactSchedule(
                 [written EXCEPT !.log = Append(@, OnSetCallback(c, k, flag,
                                                       written.comp[c].state))],
                 c, FALSE, k, flag)

\* A get trap that wraps whatever it returns.
GetWrapsAlways(key) == TRUE

\* The get trap on key: the value comes back wrapped in a proxy with the same
\* handler when it is an object, is not a CalDom instance and key does not
\* begin with "_"; it comes back as it is otherwise.
GetWraps(key) == key # "k" /\ key # "_p"

\* The object that holds the last key of path is reached through proxies only.
Wrapped(path) == \A i \in 1..(Len(path) - 1) : GetWraps(path[i])

\* A nested write that calls back whatever the keys leading to the object.
WatchSetDeepAlways(m, c, path, is_available) ==
    LET flag == IF is_available THEN "true" ELSE "false"
        key == path[Len(path)]
        written == [m EXCEPT !.comp[c].deep[path] = is_available]
    IN  IF m.comp[c].watched = "false" THEN written
        ELSE ReactSchedule(
                 [written EXCEPT !.log = Append(@, OnSetCallback(c, key, flag,
                                                       written.comp[c].state))],
                 c, FALSE, key, flag)

\* component.state.o.a = value, delete component.state.o.o.a, and so on: each
\* key but the last is read through the get trap, and the write or deletion is
\* made on what the last read returned: a proxy, whose trap writes and calls
\* onSetCallback(key, flag) with the last key alone, or the plain object.
WatchSetDeep(m, c, path, is_available) ==
    LET flag == IF is_available THEN "true" ELSE "false"
        key == path[Len(path)]
        written == [m EXCEPT !.comp[c].deep[path] = is_available]
    IN  IF m.comp[c].watched = "false" \/ ~Wrapped(path) THEN written
        ELSE ReactSchedule(
                 [written EXCEPT !.log = Append(@, OnSetCallback(c, key, flag,
                                                       written.comp[c].state))],
                 c, FALSE, key, flag)

\* The callback named at has just run on component c: when it is the one that
\* writes to the state, this.state.a = true is executed inside it.
Reenter(m, c, inp, at) ==
    IF m.err \/ inp.mut # at THEN m
    ELSE WatchSet([m EXCEPT !.log = Append(@, Event("set", c, at))], c, "a", TRUE)

\* ---------------------------------------------------------------- state

VARIABLES
    dom,        \* the heap: node id -> node
    comp,       \* component -> CalDom instance fields
    raf,        \* the frame callbacks requested and not yet run, in order
    protoKeys,  \* CalDom.prototype._watch_state_changed_keys
    rc,         \* the outermost _replace call of the last operation
    last,       \* the last operation: what it called and whether it raised
    burst,      \* component -> the state mutations made on it in a row
    ops         \* how many operations the script has made

vars == <<dom, comp, raf, protoKeys, rc, last, burst, ops>>

\* No mutation made in a row yet. Otherwise: how many (n), the keys they
\* touched, each with its last touch (keys), whether no frame callback of the
\* component was requested and not yet run when the first was made (idle0), and
\* the component's ledger and count as they were then (base, count0).
NoBurst == [n |-> 0, keys |-> EmptyLedger, idle0 |-> FALSE,
            base |-> EmptyLedger, count0 |-> 0]

\* The last operation: its name, the component it was called on, its argument
\* (the state of react(state)), whether that component was mounted before, the
\* invocations it made, whether it raised, and the mutations in a row that its
\* component had had before it.
NoLast == [op |-> "none", c |-> Null, arg |-> <<>>, was |-> FALSE,
           log |-> <<>>, err |-> FALSE, burst |-> NoBurst]

Last(op, c, m) == [NoLast EXCEPT !.op = op, !.c = c, !.log = m.log, !.err = m.err]

\* The child of n that component c owns, if any.
OwnedKid(d, n, c) ==
    IF \E i \in 1..Len(d[n].kids) : d[d[n].kids[i]].h = c
    THEN d[n].kids[CHOOSE i \in 1..Len(d[n].kids) : d[d[n].kids[i]].h = c]
    ELSE Null

\* Every render returns t for component 1 and a bare DIV for component 2;
\* no update function is involved.
RenderOnly(t) ==
    Input([c \in Comps |-> IF c = 1 THEN t ELSE El("DIV", NoAttrs, 2, <<>>)],
          [c \in Comps |-> FALSE])

\* --------------------------------------------- the reconciler on its own

\* A page holding one live tree under the body. Component 1 is the collection
\* on its root (mounted when it rendered that root); component 2 is mounted
\* when the tree holds its root and not yet rendered otherwise.
InitReplace ==
    \E live \in LiveTrees :
      \E bl \in {Build(EmptyPage, live, Body)} :
        LET live2 == OwnedKid(bl.dom, bl.id, 2)
        IN  /\ dom = bl.dom
            /\ comp = [c \in Comps |->
                         IF c = 1
                         THEN [NewComp(TRUE, FALSE, Undef, <<bl.id>>)
                                  EXCEPT !.mounted = live.h = 1, !.own = live.h = 1]
                         ELSE [NewComp(TRUE, FALSE, Undef,
                                       IF live2 = Null THEN <<>> ELSE <<live2>>)
                                  EXCEPT !.mounted = live2 # Null, !.own = live2 # Null]]
            /\ raf = <<>>
            /\ protoKeys = EmptyLedger
            /\ rc = NoCall
            /\ last = NoLast
            /\ burst = [c \in Comps |-> NoBurst]
            /\ ops = 0

\* replace(render_callback) on component 1's collection: the callback's tree
\* against elems[0], _replace(new_elem, elem, elem); elems is left as it was.
CallReplace ==
    /\ last.op = "none"
    /\ \E t \in Trees :
      \E r \in {RenderTree(Machine(dom, comp, raf, protoKeys), t, Null, RenderOnly(t))} :
      \E rr \in {_replace(Entering(r.m, r.id, comp[1].elems[1]),
                           r.id, comp[1].elems[1], comp[1].elems[1])} :
            /\ dom' = rr.m.dom
            /\ comp' = rr.m.comp
            /\ rc' = [rr.m.rc EXCEPT !.ret = rr.ret]
            /\ last' = Last("replace", 1, rr.m)
    /\ UNCHANGED <<raf, protoKeys, burst, ops>>

\* A pass of component 1 whose render returns any tree: react from a frame
\* callback (render, _h, _replace against elems[0], elems[0] updated, _didUpdate).
ReactRender ==
    /\ last.op = "none"
    /\ \E t \in Trees :
      \E m \in {ReactPass(Machine(dom, comp, raf, protoKeys), 1, FALSE, RenderOnly(t))} :
            /\ dom' = m.dom
            /\ comp' = m.comp
            /\ rc' = m.rc
            /\ last' = Last("react", 1, m)
    /\ UNCHANGED <<raf, protoKeys, burst, ops>>

NextReplace == CallReplace \/ ReactRender

SpecReplace == InitReplace /\ [][NextReplace]_vars

\* A live tree that has no parent: an element created and never put in the
\* page (_("+div")), held by component 1's collection; the components as in
\* InitReplace.
InitLoose ==
    \E live \in LiveTrees :
      \E bl \in {Build(EmptyPage, live, Null)} :
        LET live2 == OwnedKid(bl.dom, bl.id, 2)
        IN  /\ dom = bl.dom
            /\ comp = [c \in Comps |->
                         IF c = 1
                         THEN [NewComp(TRUE, FALSE, Undef, <<bl.id>>)
                                  EXCEPT !.mounted = live.h = 1, !.own = live.h = 1]
                         ELSE [NewComp(TRUE, FALSE, Undef,
                                       IF live2 = Null THEN <<>> ELSE <<live2>>)
                                  EXCEPT !.mounted = live2 # Null, !.own = live2 # Null]]
            /\ raf = <<>>
            /\ protoKeys = EmptyLedger
            /\ rc = NoCall
            /\ last = NoLast
            /\ burst = [c \in Comps |-> NoBurst]
            /\ ops = 0

SpecLoose == InitLoose /\ [][NextReplace]_vars

\* ------------------------------------------- the properties of the nodes

\* An INPUT as render creates it or as the user left it (a typed value, the
\* box checked); an element with or without custom data (_data).
InputStates == {InputProps, [InputProps EXCEPT !.value = "typed", !.checked = "true"]}
DataStates == {NoProps, [NoProps EXCEPT !.data = "d"]}

Field(pr) == [El("INPUT", NoAttrs, Null, <<>>) EXCEPT !.p = pr]
Box(pr, attrs, kids) == [El("DIV", attrs, Null, kids) EXCEPT !.p = pr]

\* Trees three levels deep: an INPUT alone, or a DIV (with or without a class)
\* holding nothing, an INPUT, a DIV, or a DIV that holds an INPUT.
PropKids ==
    {<<>>}
    \cup {<<Field(pr)>> : pr \in InputStates}
    \cup {<<Box(pr, NoAttrs, <<>>)>> : pr \in DataStates}
    \cup {<<Box(pr, NoAttrs, <<Field(q)>>)>> : pr \in DataStates, q \in InputStates}

PropTrees ==
    {Field(pr) : pr \in InputStates}
    \cup {Box(pr, a, ks) : pr \in DataStates,
                           a \in {NoAttrs, [NoAttrs EXCEPT !["class"] = "x"]},
                           ks \in PropKids}

\* A page holding one such tree under the body, rendered by component 1 or by
\* no component.
InitProps ==
    \E live \in PropTrees, owned \in BOOLEAN :
      \E bl \in {Build(EmptyPage, [live EXCEPT !.h = IF owned THEN 1 ELSE Null], Body)} :
            /\ dom = bl.dom
            /\ comp = [c \in Comps |->
                         IF c = 1
                         THEN [NewComp(TRUE, FALSE, Undef, <<bl.id>>)
                                  EXCEPT !.mounted = owned, !.own = owned]
                         ELSE NewComp(TRUE, FALSE, Undef, <<>>)]
            /\ raf = <<>>
            /\ protoKeys = EmptyLedger
            /\ rc = NoCall
            /\ last = NoLast
            /\ burst = [c \in Comps |-> NoBurst]
            /\ ops = 0

\* replace(render_callback) on component 1's collection, as CallReplace, the
\* callback returning a tree of PropTrees.
ReplaceProps ==
    /\ last.op = "none"
    /\ \E t \in PropTrees :
      \E r \in {RenderTree(Machine(dom, comp, raf, protoKeys), t, Null, RenderOnly(t))} :
      \E rr \in {_replace(Entering(r.m, r.id, comp[1].elems[1]),
                           r.id, comp[1].elems[1], comp[1].elems[1])} :
            /\ dom' = rr.m.dom
            /\ comp' = rr.m.comp
            /\ rc' = [rr.m.rc EXCEPT !.ret = rr.ret]
            /\ last' = Last("replace", 1, rr.m)
    /\ UNCHANGED <<raf, protoKeys, burst, ops>>

\* A pass of component 1, as ReactRender, render returning a tree of PropTrees.
ReactProps ==
    /\ last.op = "none"
    /\ \E t \in PropTrees :
      \E m \in {ReactPass(Machine(dom, comp, raf, protoKeys), 1, FALSE, RenderOnly(t))} :
            /\ dom' = m.dom
            /\ comp' = m.comp
            /\ rc' = m.rc
            /\ last' = Last("react", 1, m)
    /\ UNCHANGED <<raf, protoKeys, burst, ops>>

NextProps == ReplaceProps \/ ReactProps

SpecProps == InitProps /\ [][NextProps]_vars

\* ------------------------------------------- properties of the reconciler

\* The last operation made a top-level call _replace(Cand, Live, ...).
Called == rc.cand # Null

Cand == rc.cand
Live == rc.live

\* The node that stands where Live stood under its parent when the call began.
Occupant ==
    LET par == rc.dom[Live].parent
    IN  dom[par].kids[IndexOf(rc.dom[par].kids, Live)]

\* The node a candidate child stands for: its _original_root when it has one.
Stands(n) == IF rc.dom[n].orig # Null THEN rc.dom[n].orig ELSE n

\* Positions of the events named ev about component c (or node n) in the log.
HookAt(ev, c) == {i \in 1..Len(last.log) : last.log[i].ev = ev /\ last.log[i].c = c}
TakenOutAt(ev, n) == {i \in 1..Len(last.log) : last.log[i].ev = ev /\ last.log[i].node = n}

\* Live and every node below it are as they were when the call began (Live's
\* parent link aside).
LiveUntouched ==
    /\ [dom[Live] EXCEPT !.parent = rc.dom[Live].parent] = rc.dom[Live]
    /\ \A i \in 1..Len(rc.dom[Live].kids) :
          dom[rc.dom[Live].kids[i]] = rc.dom[rc.dom[Live].kids[i]]

\* Live was swapped for Cand: Live has no parent, Cand stands in its place and
\* was returned.
Swapped ==
    /\ ~last.err
    /\ rc.ret = Cand
    /\ dom[Live].parent = Null
    /\ Occupant = Cand

\* C6: after _replace returns, the node in Live's place is structurally equal
\* to the candidate as it was before the call, whatever the node types.
C6_Converges ==
    (Called /\ ~last.err) => Struct(dom, Occupant) = Struct(rc.dom, Cand)

\* The soft-replace case: the candidate is an element with Live's tag, owner and
\* caldom-v value.
SoftCase ==
    /\ Called
    /\ rc.dom[Cand].type = ElementNode
    /\ rc.dom[Cand].tag = rc.dom[Live].tag
    /\ rc.dom[Cand].h = rc.dom[Live].h
    /\ rc.dom[Cand].attrs["caldom-v"] = rc.dom[Live].attrs["caldom-v"]

\* C7: a soft-replace never detaches Live: nothing is returned, Live is the same
\* node at the same position under the same parent, and the tracked root
\* elems[0] of the component is the one it was.
C7_SoftKeepsIdentity ==
    SoftCase =>
        /\ ~last.err
        /\ rc.ret = Null
        /\ dom[Live].parent = rc.dom[Live].parent
        /\ Occupant = Live
        /\ comp[last.c].elems = rc.comp[last.c].elems
        /\ comp[last.c].elems[1] = Live

\* A soft-replace that patched Live (children, attributes) and kept it.
C7_Witness ==
    /\ SoftCase
    /\ Struct(dom, Live) # Struct(rc.dom, Live)
    /\ Occupant = Live

\* The children walk with trailing children: a soft-replace of an unequal pair
\* in which Live has more child nodes than the candidate.
TrailingCase ==
    /\ SoftCase
    /\ ~IsEqualNode(rc.dom, Cand, Live)
    /\ Len(rc.dom[Cand].kids) < Len(rc.dom[Live].kids)

\* What C8 says of the walk: Live ends with the candidate's number of children,
\* removeChild took out exactly the children beyond that number (one that a
\* component owns between its willUnmount and its didUnmount), and a
\* soft-replaceable child within that number is the same node at the same
\* position.
PositionDiff ==
    LET n == Len(rc.dom[Cand].kids)
        before == rc.dom[Live].kids
        after == dom[Live].kids
    IN  /\ ~last.err
        /\ Len(after) = n
        /\ \A i \in 1..Len(before) :
              TakenOutAt("removeChild", before[i]) # {} <=> i > n
        /\ \A i \in (n + 1)..Len(before) :
              LET hc == rc.dom[before[i]].h
              IN  /\ dom[before[i]].parent = Null
                  /\ hc # Null =>
                        \E w \in HookAt("willUnmount", hc), u \in HookAt("didUnmount", hc) :
                        \E r \in TakenOutAt("removeChild", before[i]) : w < r /\ r < u
        /\ \A i \in 1..n :
              SoftReplacable(rc.dom, Stands(rc.dom[Cand].kids[i]), before[i])
                  => after[i] = before[i]

\* No child of the candidate stands for a child that Live holds at another
\* position (the staged clone of a mounted child component's root).
NoChildMoves ==
    \A i \in 1..Len(rc.dom[Cand].kids) :
        LET k == rc.dom[Cand].kids[i]
        IN  rc.dom[k].orig # Null =>
                /\ i <= Len(rc.dom[Live].kids)
                /\ rc.dom[Live].kids[i] = rc.dom[k].orig

\* C8 as the specification states it: the position-based diff of every
\* soft-replace in which Live has more children than the candidate.
C8_AsStated == TrailingCase => PositionDiff

\* C8: the position-based diff, when no candidate child stands for a child
\* that Live holds at another position.
C8_PositionDiff == (TrailingCase /\ NoChildMoves) => PositionDiff

\* A trailing child owned by component 2 was removed between its hooks.
C8_Witness ==
    /\ TrailingCase
    /\ NoChildMoves
    /\ Len(rc.dom[Cand].kids) = 1
    /\ rc.dom[rc.dom[Live].kids[2]].h = 2
    /\ HookAt("didUnmount", 2) # {}
    /\ dom[Live].kids = <<rc.dom[Live].kids[1]>>

\* The forced hard-replace case: an element candidate whose tag is not Live's,
\* or whose caldom-v value is not Live's while tag and owner are.
ForcedCase ==
    /\ Called
    /\ rc.dom[Cand].type = ElementNode
    /\ \/ rc.dom[Cand].tag # rc.dom[Live].tag
       \/ /\ rc.dom[Cand].tag = rc.dom[Live].tag
          /\ rc.dom[Cand].h = rc.dom[Live].h
          /\ rc.dom[Cand].attrs["caldom-v"] # rc.dom[Live].attrs["caldom-v"]

\* C9: in the forced case the nodes are swapped (Live detached, the candidate
\* in its place and returned) and no attribute or child of Live is patched.
C9_ForcedHardReplace == ForcedCase => (Swapped /\ LiveUntouched)

\* A swap forced by the caldom-v value alone: same tag, same owner.
C9_Witness ==
    /\ ForcedCase
    /\ rc.dom[Cand].tag = rc.dom[Live].tag
    /\ rc.dom[Cand].h = rc.dom[Live].h
    /\ Swapped

\* C10: element nodes whose owning components are not the same are swapped
\* (Live detached, the candidate in its place, Live's component receiving
\* willUnmount and didUnmount), also when they are otherwise equal.
C10_OwnerMismatchSwaps ==
    (/\ Called
     /\ rc.dom[Cand].type = ElementNode
     /\ rc.dom[Live].type = ElementNode
     /\ rc.dom[Cand].h # rc.dom[Live].h)
        => /\ Swapped
           /\ rc.dom[Live].h # Null =>
                 /\ HookAt("willUnmount", rc.dom[Live].h) # {}
                 /\ HookAt("didUnmount", rc.dom[Live].h) # {}

\* ------------------------------------------------- unreferenced nodes

RECURSIVE Top(_, _)
\* The root of the tree that holds n.
Top(d, n) == IF d[n].parent = Null THEN n ELSE Top(d, d[n].parent)

RECURSIVE Walk(_, _)
RECURSIVE WalkKids(_, _, _)
\* The nodes of the tree under n, in document order.
Walk(d, n) == <<n>> \o WalkKids(d, d[n].kids, 1)

WalkKids(d, ks, i) ==
    IF i > Len(ks) THEN <<>> ELSE Walk(d, ks[i]) \o WalkKids(d, ks, i + 1)

InSeq(s, x) == \E i \in 1..Len(s) : s[i] = x

\* order, followed by the tree that holds n when n is not in it yet.
Reach(d, order, n) ==
    IF n = Null \/ InSeq(order, n) THEN order ELSE order \o Walk(d, Top(d, n))

RECURSIVE ReachAll(_, _, _, _)
ReachAll(d, order, seeds, i) ==
    IF i > Len(seeds) THEN order
    ELSE With(Reach(d, order, seeds[i]), LAMBDA o : ReachAll(d, o, seeds, i + 1))

RECURSIVE ReachOrig(_, _, _)
\* order closed under _original_root.
ReachOrig(d, order, i) ==
    IF i > Len(order) THEN order
    ELSE With(Reach(d, order, d[order[i]].orig), LAMBDA o : ReachOrig(d, o, i + 1))

\* The heap without the nodes nothing refers to any more (the page, every
\* component's elems and _v, every _original_root are what refers to a node),
\* the nodes named in the order the page and the components reach them.
Collect(m) ==
    LET d == m.dom
        seeds == m.comp[1].elems \o m.comp[1].v \o m.comp[2].elems \o m.comp[2].v
    IN  With(ReachOrig(d, ReachAll(d, Walk(d, Body), seeds, 1), 1), LAMBDA order :
            LET Ren(n) == IF n # Null /\ InSeq(order, n) THEN IndexOf(order, n) ELSE Null
                RenSeq(q) == [i \in 1..Len(q) |-> Ren(q[i])]
            IN  [m EXCEPT
                    !.dom = [i \in 1..Len(order) |->
                                [d[order[i]] EXCEPT !.kids = RenSeq(@),
                                                    !.parent = Ren(@),
                                                    !.orig = Ren(@)]],
                    !.comp = [c \in Comps |->
                                [m.comp[c] EXCEPT !.elems = RenSeq(@), !.v = RenSeq(@)]],
                    !.log = [i \in 1..Len(m.log) |->
                                [m.log[i] EXCEPT !.node = Ren(@)]]])

\* ------------------------------------------------------- the components

\* Most operations the script makes; the frames that run are not counted.
MaxOps == 3

\* What a component is configured with: a render function, an update function
\* (at least one of the two), and watched (true, false, or left undefined).
Configs ==
    {cfg \in [render : BOOLEAN, update : BOOLEAN, watched : {Undef, "true", "false"}] :
        cfg.render \/ cfg.update}

\* What the render functions return: component 1 a DIV, a DIV holding the root
\* of component 2, or nothing; component 2 a DIV, or nothing.
Shapes ==
    [c \in Comps |->
        IF c = 1
        THEN {El("DIV", NoAttrs, Null, <<>>),
              El("DIV", NoAttrs, Null, <<El("DIV", NoAttrs, 2, <<>>)>>),
              Falsy}
        ELSE {El("DIV", NoAttrs, Null, <<>>), Falsy}]

\* The callbacks' results that an operation on component c can depend on: a
\* component without render (update) has no render (update) result, and another
\* component's results count only when c's render inserts it.
Inputs(c) ==
    {inp \in [shape : [Comps -> UNION {Shapes[x] : x \in Comps}], upd : [Comps -> BOOLEAN],
              mut : {NoMut}] :
        \A x \in Comps :
            /\ inp.shape[x] \in Shapes[x]
            /\ ~comp[x].render => inp.shape[x] = DefaultShape
            /\ ~comp[x].update => ~inp.upd[x]
            /\ (x # c /\ \A i \in 1..Len(inp.shape[c].kids) : inp.shape[c].kids[i].h # x)
                  => (inp.shape[x] = DefaultShape /\ ~inp.upd[x])}

\* The component the script drives; the other one is a render-only child that
\* component 1's render function may insert.
Scripted == {1}

\* The components after _().react(state, config): see NewComp.
Init ==
    \E c1 \in Configs :
        /\ dom = EmptyPage
        /\ comp = [c \in Comps |->
                     IF c \in Scripted THEN NewComp(c1.render, c1.update, c1.watched, <<>>)
                     ELSE NewComp(TRUE, FALSE, Undef, <<>>)]
        /\ raf = <<>>
        /\ protoKeys = EmptyLedger
        /\ rc = NoCall
        /\ last = NoLast
        /\ burst = [c \in Comps |-> NoBurst]
        /\ ops = 0

\* An operation on component c ran to m: the heap is collected, the operation is
\* recorded, and the mutations in a row end for c and for every component the
\* operation called something on.
Commit(op, c, arg, m) ==
    \E ran \in {m} : \E g \in {Collect(ran)} :
        /\ dom' = g.dom
        /\ comp' = g.comp
        /\ raf' = g.raf
        /\ protoKeys' = g.proto
        /\ rc' = NoCall
        /\ last' = [op |-> op, c |-> c, arg |-> arg, was |-> comp[c].mounted,
                    log |-> g.log, err |-> g.err,
                    burst |-> IF op = "frame" THEN burst[c] ELSE NoBurst]
        /\ burst' = [x \in Comps |->
                       IF x = c \/ \E i \in 1..Len(g.log) : g.log[i].c = x
                       THEN NoBurst ELSE burst[x]]
        /\ ops' = IF op = "frame" THEN ops ELSE ops + 1

\* The script makes one more operation.
Scripting == ops < MaxOps

\* _("body").append(component c): insertBefore with one CalDom item.
AppendTo(c) ==
    /\ Scripting
    /\ ~comp[c].mounted
    /\ \E inp \in Inputs(c) :
        Commit("append", c, <<>>,
               InsertComponent(Machine(dom, comp, raf, protoKeys), Body, c, inp))

\* component.state[k] = value (is_available) or delete component.state[k]: on a
\* watched state the proxy writes and then calls react(undefined, undefined,
\* true, k, is_available); a state that is not watched is just written.
Mutate(c, k, is_available) ==
    /\ Scripting
    /\ LET m0 == Machine(dom, [comp EXCEPT ![c].state[k] = is_available], raf, protoKeys)
           m == WatchSet(Machine(dom, comp, raf, protoKeys), c, k, is_available)
       IN  /\ dom' = dom
           /\ comp' = m.comp
           /\ raf' = m.raf
           /\ protoKeys' = m.proto
           /\ rc' = NoCall
           /\ ops' = ops + 1
           /\ last' = [op |-> "mutate", c |-> c, arg |-> <<>>, was |-> comp[c].mounted,
                       log |-> m.log, err |-> FALSE, burst |-> NoBurst]
           /\ burst' = [burst EXCEPT ![c] =
                          IF comp[c].watched = "false" THEN NoBurst
                          ELSE IF @.n = 0
                          THEN [n |-> 1,
                                keys |-> [EmptyLedger EXCEPT
                                            ![k] = IF is_available THEN "true" ELSE "false"],
                                idle0 |-> ~InSeq(raf, c),
                                base |-> Ledger(m0, c),
                                count0 |-> comp[c].count]
                          ELSE [@ EXCEPT !.n = @ + 1,
                                         !.keys[k] = IF is_available THEN "true"
                                                     ELSE "false"]]

\* A react() that schedules whatever watched is.
ReactZeroAlways(c) ==
    /\ Scripting
    /\ Commit("react", c, <<>>,
              ReactSchedule(Machine(dom, comp, raf, protoKeys), c, TRUE, Undef, Undef))

\* component.react() with no argument: nothing when watched is true; otherwise
\* the scheduling branch with an undefined key.
ReactZero(c) ==
    /\ Scripting
    /\ LET m0 == Machine(dom, comp, raf, protoKeys)
       IN  Commit("react", c, <<>>,
                  IF comp[c].watched = "true" THEN m0
                  ELSE ReactSchedule(m0, c, TRUE, Undef, Undef))

\* A react(s) that only requests a frame.
ReactStateDeferred(c, s) ==
    /\ Scripting
    /\ Commit("reactState", c, s,
              ReactSchedule(Machine(dom, [comp EXCEPT ![c].state = s], raf, protoKeys),
                            c, TRUE, Undef, Undef))

\* component.react(s): the state is replaced by s (watched again unless watched
\* is false), then the pass runs.
ReactState(c, s) ==
    /\ Scripting
    /\ \E inp \in Inputs(c) :
        Commit("reactState", c, s,
               ReactPass(Machine(dom, [comp EXCEPT ![c].state = s], raf, protoKeys),
                         c, FALSE, inp))

\* The next animation frame: the callback requested first runs, and calls
\* react(undefined, undefined, undefined, undefined, undefined, undefined, true).
Frame ==
    /\ raf # <<>>
    /\ \E inp \in Inputs(Head(raf)) :
        Commit("frame", Head(raf), <<>>,
               ReactPass(Machine(dom, comp, Tail(raf), protoKeys), Head(raf), FALSE, inp))

RECURSIVE RemoveElems(_, _, _)
\* The each() of remove(): elem.parentNode.removeChild(elem) for every element.
RemoveElems(m, es, i) ==
    IF m.err \/ i > Len(es) THEN m
    ELSE IF m.dom[es[i]].parent = Null THEN Raise(m)
    ELSE With([m EXCEPT !.dom = RemoveChild(@, m.dom[es[i]].parent, es[i]),
                        !.log = Append(@, [Event("removeChild", Null, Undef)
                                             EXCEPT !.node = es[i]])],
              LAMBDA m1 : RemoveElems(m1, es, i + 1))

\* remove(): _willUnmount(true), every element taken out of its parent, elems
\* emptied, _setMultipleMode(), _didUnmount(true).
RemoveCall(c) ==
    LET m1 == _willUnmount(Machine(dom, comp, raf, protoKeys), c, "true")
        Emptied(m2) ==
            IF m2.err THEN m2
            ELSE _didUnmount([m2 EXCEPT !.comp[c].elems = <<>>,
                                        !.comp[c].multiple = TRUE], c, "true")
    IN  Commit("remove", c, <<>>,
               With(RemoveElems(m1, comp[c].elems, 1), Emptied))

\* component.remove().
Remove(c) ==
    /\ Scripting
    /\ comp[c].mounted
    /\ RemoveCall(c)

Next ==
    \/ \E c \in Scripted : AppendTo(c)
    \/ \E c \in Scripted, k \in Keys, is_available \in BOOLEAN : Mutate(c, k, is_available)
    \/ \E c \in Scripted : ReactZero(c)
    \/ \E c \in Scripted, s \in States : ReactState(c, s)
    \/ Frame
    \/ \E c \in Scripted : Remove(c)

Spec == Init /\ [][Next]_vars

\* Every requested frame callback is run by the host.
FairSpec == Spec /\ WF_vars(Frame)

\* ------------------------------------------- the components in the tree

\* _("+div").append(component c): insertBefore with one CalDom item on a
\* collection holding a new element that is in no document.
AppendDetached(c) ==
    /\ Scripting
    /\ ~comp[c].mounted
    /\ \E inp \in Inputs(c) :
        LET m == Machine(dom, comp, raf, protoKeys)
            id == NextId(dom)
        IN  Commit("appendDetached", c, <<>>,
                   InsertComponent([m EXCEPT !.dom = dom @@ (id :> NewNode(ElementNode, "DIV",
                                                                         NoAttrs, "", NoProps))],
                                   id, c, inp))

\* The state the script hands to react(state) here.
NewState == [k \in Keys |-> TRUE]

\* Two components: 1 with a render function, 2 with render and update; the
\* script appends, removes and re-renders either.
InitTree ==
    /\ dom = EmptyPage
    /\ comp = [c \in Comps |->
                 IF c = 1 THEN NewComp(TRUE, FALSE, Undef, <<>>)
                 ELSE NewComp(TRUE, TRUE, Undef, <<>>)]
    /\ raf = <<>>
    /\ protoKeys = EmptyLedger
    /\ rc = NoCall
    /\ last = NoLast
    /\ burst = [c \in Comps |-> NoBurst]
    /\ ops = 0

NextTree ==
    \/ \E c \in Comps : AppendTo(c)
    \/ \E c \in Comps : AppendDetached(c)
    \/ \E c \in Comps : ReactState(c, NewState)
    \/ \E c \in Comps : Remove(c)

SpecTree == InitTree /\ [][NextTree]_vars

\* ------------------------------------------------ writes on nested objects

\* A write (is_available) or a deletion at path in the state of component c.
MutateDeep(c, path, is_available) ==
    /\ Scripting
    /\ LET m == WatchSetDeep(Machine(dom, comp, raf, protoKeys), c, path, is_available)
       IN  /\ dom' = dom
           /\ comp' = m.comp
           /\ raf' = m.raf
           /\ protoKeys' = m.proto
           /\ rc' = NoCall
           /\ ops' = ops + 1
           /\ last' = [op |-> "mutateDeep", c |-> c, arg |-> path,
                       was |-> comp[c].mounted, log |-> m.log, err |-> FALSE,
                       burst |-> NoBurst]
           /\ UNCHANGED burst

NextDeep ==
    \/ \E c \in Scripted : AppendTo(c)
    \/ \E c \in Scripted, k \in Keys, is_available \in BOOLEAN : Mutate(c, k, is_available)
    \/ \E c \in Scripted, path \in DeepPaths, is_available \in BOOLEAN :
          MutateDeep(c, path, is_available)
    \/ Frame

SpecDeep == Init /\ [][NextDeep]_vars

\* ------------------------------------------- callbacks that write the state

\* The callbacks of a pass that may write to the state of their component.
Callbacks == {"update", "render", "didUpdate"}

\* The inputs of an operation on c whose render inserts no other component
\* and in which no callback, or one of them, writes to the state.
Reentrant(c) ==
    {[inp EXCEPT !.mut = at] : inp \in {x \in Inputs(c) : x.shape[c].kids = <<>>},
                               at \in Callbacks \cup {NoMut}}

\* AppendTo, ReactState and Frame with such callbacks; the frames count among
\* the MaxOps operations, since every pass may request one more.
AppendReentrant(c) ==
    /\ Scripting
    /\ ~comp[c].mounted
    /\ \E inp \in Reentrant(c) :
        Commit("append", c, <<>>,
               InsertComponent(Machine(dom, comp, raf, protoKeys), Body, c, inp))

ReactStateReentrant(c, s) ==
    /\ Scripting
    /\ \E inp \in Reentrant(c) :
        Commit("reactState", c, s,
               ReactPass(Machine(dom, [comp EXCEPT ![c].state = s], raf, protoKeys),
                         c, FALSE, inp))

FrameReentrant ==
    /\ Scripting
    /\ raf # <<>>
    /\ \E inp \in Reentrant(Head(raf)) :
        Commit("framePass", Head(raf), <<>>,
               ReactPass(Machine(dom, comp, Tail(raf), protoKeys), Head(raf), FALSE, inp))

NextReentrant ==
    \/ \E c \in Scripted : AppendReentrant(c)
    \/ \E c \in Scripted : ReactStateReentrant(c, NewState)
    \/ FrameReentrant

SpecReentrant == Init /\ [][NextReentrant]_vars

\* ------------------------------------------------- the items of append

\* A value handed to append: what typeof and instanceof tell of it (t), the
\* string String(value) gives (v), the node or the component it is (ref), and
\* the entries of an array (items).
Value(t, v) == [t |-> t, v |-> v, ref |-> Null, items |-> <<>>]

JsNull == Value("null", "null")
JsUndefined == Value("undefined", Undef)
RawNode(n) == [Value("node", "[object HTMLDivElement]") EXCEPT !.ref = n]
Component(c) == [Value("caldom", "[object Object]") EXCEPT !.ref = c]
Array(items) == [Value("array", "") EXCEPT !.items = items]

\* !value is false.
ToBoolean(x) ==
    CASE x.t \in {"null", "undefined"} -> FALSE
      [] x.t = "number" -> x.v # "0"
      [] x.t = "string" -> x.v # ""
      [] x.t = "boolean" -> x.v = "true"
      [] OTHER -> TRUE

\* _isArrayLike: an array (or an object with a length that is not a Node).
_isArrayLike(x) == x.t = "array"

\* typeof value != 'object'.
NotAnObject(x) == x.t \in {"number", "string", "boolean", "undefined"}

RECURSIVE InsertElems(_, _, _, _)
\* The inner loop of insertBefore over new_elems: an entry that is falsy is
\* passed over, one that is not an object becomes a text node, and the entry
\* is handed to appendChild, which raises when it is not a Node.
InsertElems(m, elem, new_elems, elem_i) ==
    IF m.err \/ elem_i > Len(new_elems) THEN m
    ELSE LET new_elem == new_elems[elem_i]
             id == NextId(m.dom)
             text == [m EXCEPT !.dom = AppendChild(
                                   m.dom @@ (id :> NewNode(TextNode, "#text", NoAttrs,
                                                           new_elem.v, NoProps)),
                                   elem, id),
                               !.log = Append(@, [Event("appendChild", Null, Undef)
                                                    EXCEPT !.node = id])]
             node == [m EXCEPT !.dom = AppendChild(@, elem, new_elem.ref),
                               !.log = Append(@, [Event("appendChild", Null, Undef)
                                                    EXCEPT !.node = new_elem.ref])]
             m1 == IF ~ToBoolean(new_elem) THEN m
                   ELSE IF NotAnObject(new_elem) THEN text
                   ELSE IF new_elem.t = "node" THEN node
                   ELSE Raise(m)
         IN  With(m1, LAMBDA m2 : InsertElems(m2, elem, new_elems, elem_i + 1))

RECURSIVE InsertItems(_, _, _, _, _)
\* The outer loop of insertBefore over the items: a falsy item is passed over,
\* a CalDom item is mounted (InsertComponent), an array-like one is its own
\* new_elems, any other is new_elems alone.
InsertItems(m, elem, list, i, inp) ==
    IF m.err \/ i > Len(list) THEN m
    ELSE LET this_item == list[i]
             m1 == IF ~ToBoolean(this_item) THEN m
                   ELSE IF this_item.t = "caldom"
                   THEN InsertComponent(m, elem, this_item.ref, inp)
                   ELSE InsertElems(m, elem,
                                    IF _isArrayLike(this_item) THEN this_item.items
                                    ELSE <<this_item>>, 1)
         IN  With(m1, LAMBDA m2 : InsertItems(m2, elem, list, i + 1, inp))

\* Most arguments of one append call, and most entries of an array among them.
MaxItems == 2

\* The single values: null, undefined, numbers, strings, booleans, a new
\* element n, component 2.
Atoms(n) ==
    {JsNull, JsUndefined, Value("number", "0"), Value("number", "5"),
     Value("string", ""), Value("string", "a"),
     Value("boolean", "false"), Value("boolean", "true"),
     RawNode(n), Component(2)}

\* The arrays: of null, a number, a string, the new element, component 2.
Arrays(n) ==
    {Array(items) :
        items \in UNION {[1..k -> {JsNull, Value("number", "0"), Value("string", "a"),
                                   RawNode(n), Component(2)}] : k \in 0..MaxItems}}

\* The argument lists of append.
Arguments(n) == UNION {[1..k -> Atoms(n) \cup Arrays(n)] : k \in 0..MaxItems}

\* What the body holds before the call: nothing, a text node, a DIV, or the
\* root of the mounted component 2.
PrevKids == {<<>>, <<Txt("a")>>, <<El("DIV", NoAttrs, Null, <<>>)>>,
             <<El("DIV", NoAttrs, 2, <<>>)>>}

InitAppend ==
    \E prev \in PrevKids :
      \E d \in {BuildKids(EmptyPage, prev, Body, 1)} :
        LET root2 == OwnedKid(d, Body, 2)
        IN  /\ dom = d
            /\ comp = [c \in Comps |->
                         IF c = 1 THEN NewComp(TRUE, FALSE, Undef, <<>>)
                         ELSE [NewComp(TRUE, FALSE, Undef,
                                       IF root2 = Null THEN <<>> ELSE <<root2>>)
                                  EXCEPT !.mounted = root2 # Null, !.own = root2 # Null]]
            /\ raf = <<>>
            /\ protoKeys = EmptyLedger
            /\ rc = NoCall
            /\ last = NoLast
            /\ burst = [c \in Comps |-> NoBurst]
            /\ ops = 0

\* n = document.createElement("div"); _("body").append(arguments): the items
\* are the first argument when it is array-like and the arguments otherwise;
\* insertBefore appends them to elems[0]. The operation records the items.
CallAppend ==
    /\ last.op = "none"
    /\ \E n \in {NextId(dom)} : \E args \in Arguments(n) :
         LET created == dom @@ (n :> NewNode(ElementNode, "DIV", NoAttrs, "null", NoProps))
             list == IF Len(args) > 0 /\ _isArrayLike(args[1]) THEN args[1].items ELSE args
         IN  \E m \in {InsertItems(Machine(created, comp, raf, protoKeys), Body, list, 1,
                                   RenderOnly(DefaultShape))} :
               /\ dom' = m.dom
               /\ comp' = m.comp
               /\ raf' = m.raf
               /\ protoKeys' = m.proto
               /\ last' = [Last("append", Null, m) EXCEPT !.arg = list]
    /\ UNCHANGED <<rc, burst, ops>>

NextAppend == CallAppend

SpecAppend == InitAppend /\ [][NextAppend]_vars

\* --------------------------------------------------------- the accessors

\* The value handed to a setter: none given (the call is a getter), a string,
\* or an array of strings.
NoVal == [given |-> FALSE, array |-> FALSE, v |-> <<>>]
Str(x) == [given |-> TRUE, array |-> FALSE, v |-> <<x>>]
Arr(xs) == [given |-> TRUE, array |-> TRUE, v |-> xs]

\* val_or_val_array[i] of an array (undefined past its end), the value itself
\* otherwise; i counts from 1 here.
ValAt(val, i) ==
    IF ~val.array THEN val.v[1]
    ELSE IF i <= Len(val.v) THEN val.v[i] ELSE Undef

\* classList.add("x") and classList.remove("x") on the class attribute.
ClassListAdd(v) ==
    CASE v = NoAttr -> "x"
      [] v = "" -> "x"
      [] v = "y" -> "y x"
      [] OTHER -> v

ClassListRemove(v) ==
    CASE v = "x" -> ""
      [] v = "y x" -> "y"
      [] OTHER -> v

\* What a setter does to one element, the i-th of the collection: attr on
\* "class", prop on "value", css on one style key.
Written(f, val, node, i) ==
    CASE f = "attr" -> [node EXCEPT !.attrs["class"] = ValAt(val, i)]
      [] f = "prop" -> [node EXCEPT !.p.value = ValAt(val, i)]
      [] f = "css" -> [node EXCEPT !.attrs["style"] = ValAt(val, i)]
      [] f = "addClass" -> [node EXCEPT !.attrs["class"] = ClassListAdd(@)]
      [] f = "removeClass" -> [node EXCEPT !.attrs["class"] = ClassListRemove(@)]

\* What a getter reads on one element.
ReadOf(f, node) ==
    CASE f = "attr" -> node.attrs["class"]
      [] f = "prop" -> node.p.value
      [] f = "css" -> node.attrs["style"]

\* The calls made on a collection: each and map with a callback that returns
\* its index, the getters and setters of attr, prop and css, addClass and
\* removeClass.
Calls ==
    {[f |-> f, val |-> NoVal] : f \in {"each", "map"}}
    \cup {[f |-> f, val |-> val] : f \in {"attr", "prop", "css"},
                                   val \in {NoVal, Str("x"), Arr(<<"y", "x">>)}}
    \cup {[f |-> f, val |-> Str("x")] : f \in {"addClass", "removeClass"}}

\* The callback of each and map called with element n and index i.
CallBack(m, c, n, i) ==
    [m EXCEPT !.log = Append(@, [Event("callback", c, ToString(i)) EXCEPT !.node = n])]

\* The single-element accessors (_eachSingle, _mapSingle, _attrSingle,
\* _propSingle, _cssSingle, _addClassSingle, _removeClassSingle): everything
\* is done on this.elems[0], which is undefined in an empty collection.
Single(m, c, call) ==
    LET es == m.comp[c].elems
        first == IF es = <<>> THEN Null ELSE es[1]
    IN  IF call.f = "each"
        THEN [m |-> CallBack(m, c, first, 0), ret |-> JsUndefined]
        ELSE IF call.f = "map"
        THEN [m |-> CallBack(m, c, first, 0), ret |-> Array(<<Value("number", "0")>>)]
        ELSE IF first = Null
        THEN [m |-> Raise(m), ret |-> JsUndefined]
        ELSE IF call.val.given
        THEN [m |-> [m EXCEPT !.dom[first] = Written(call.f, call.val, @, 1)],
              ret |-> Component(c)]
        ELSE [m |-> m, ret |-> Array(<<Value("string", ReadOf(call.f, m.dom[first]))>>)]

RECURSIVE CallBacks(_, _, _, _)
\* The loop of _eachMultiple and _mapMultiple.
CallBacks(m, c, es, i) ==
    IF i > Len(es) THEN m
    ELSE With(CallBack(m, c, es[i], i - 1), LAMBDA m1 : CallBacks(m1, c, es, i + 1))

\* The iterating accessors (_eachMultiple, _mapMultiple, _attrMultiple,
\* _propMultiple, _cssMultiple, _addClassMultiple, _removeClassMultiple): a loop
\* over this.elems.
Multiple(m, c, call) ==
    LET es == m.comp[c].elems
    IN  IF call.f = "each"
        THEN [m |-> CallBacks(m, c, es, 1), ret |-> Component(c)]
        ELSE IF call.f = "map"
        THEN [m |-> CallBacks(m, c, es, 1),
              ret |-> Array([i \in 1..Len(es) |-> Value("number", ToString(i - 1))])]
        ELSE IF call.val.given
        THEN [m |-> [m EXCEPT !.dom = [n \in DOMAIN m.dom |->
                                          IF InSeq(es, n)
                                          THEN Written(call.f, call.val, m.dom[n],
                                                       IndexOf(es, n))
                                          ELSE m.dom[n]]],
              ret |-> Component(c)]
        ELSE [m |-> m,
              ret |-> Array([i \in 1..Len(es) |->
                               Value("string", ReadOf(call.f, m.dom[es[i]]))])]

\* init(selector): no element and the prototype's accessors when no selector
\* is given; the entries of an array-like, or the one node; _setMultipleMode()
\* unless that makes exactly one element.
init(selector) ==
    LET elems == IF _isArrayLike(selector)
                 THEN [i \in 1..Len(selector.items) |-> selector.items[i].ref]
                 ELSE <<selector.ref>>
    IN  IF ~ToBoolean(selector) THEN NewComp(FALSE, FALSE, Undef, <<>>)
        ELSE [NewComp(FALSE, FALSE, Undef, elems) EXCEPT !.multiple = Len(elems) # 1]

\* The selectors: none, a node, an array of no, one or two nodes.
Selectors ==
    {JsUndefined, RawNode(2), Array(<<>>), Array(<<RawNode(2)>>),
     Array(<<RawNode(2), RawNode(3)>>)}

\* A page with two DIVs (the nodes 2 and 3) and one collection: _(selector), or
\* the component _().react({}, { render }); component 2 as in Init.
InitMode ==
    \E selector \in Selectors, render \in BOOLEAN :
        /\ render => selector = JsUndefined
        /\ dom = BuildKids(EmptyPage, <<El("DIV", NoAttrs, Null, <<>>),
                                        El("DIV", [NoAttrs EXCEPT !["class"] = "y"],
                                           Null, <<>>)>>, Body, 1)
        /\ comp = [c \in Comps |->
                     IF c = 1 THEN [init(selector) EXCEPT !.render = render]
                     ELSE NewComp(TRUE, FALSE, Undef, <<>>)]
        /\ raf = <<>>
        /\ protoKeys = EmptyLedger
        /\ rc = NoCall
        /\ last = NoLast
        /\ burst = [c \in Comps |-> NoBurst]
        /\ ops = 0

\* collection.each(...), .map(...), .attr(...), and so on: the function the
\* instance holds under that name is called, and what it returned is recorded
\* after what it called.
Access(c, call) ==
    /\ Scripting
    /\ \E r \in {IF comp[c].multiple
                 THEN Multiple(Machine(dom, comp, raf, protoKeys), c, call)
                 ELSE Single(Machine(dom, comp, raf, protoKeys), c, call)} :
         /\ dom' = r.m.dom
         /\ last' = [Last("access", c, r.m) EXCEPT
                        !.log = Append(@, [Event("return", c, r.ret.t)
                                             EXCEPT !.st = r.ret.items]),
                        !.arg = <<call>>]
    /\ ops' = ops + 1
    /\ UNCHANGED <<comp, raf, protoKeys, rc, burst>>

\* collection.remove(), mounted or not.
RemoveCollection(c) == Scripting /\ RemoveCall(c)

NextMode ==
    \/ \E call \in Calls : Access(1, call)
    \/ RemoveCollection(1)
    \/ AppendTo(1)

SpecMode == InitMode /\ [][NextMode]_vars

\* ------------------------------------------------------- two components

\* The key of its state that the script writes on component c.
OwnKey(c) == IF c = 1 THEN "a" ELSE "b"

\* Two components with an update function and a watched state, each with or
\* without a render function, built one after the other and not yet mounted.
InitPair ==
    \E r \in [Comps -> BOOLEAN] :
        /\ dom = EmptyPage
        /\ comp = [c \in Comps |-> NewComp(r[c], TRUE, Undef, <<>>)]
        /\ raf = <<>>
        /\ protoKeys = EmptyLedger
        /\ rc = NoCall
        /\ last = NoLast
        /\ burst = [c \in Comps |-> NoBurst]
        /\ ops = 0

\* The script appends either component and writes or deletes its key of
\* either state; the frames run.
NextPair ==
    \/ \E c \in Comps : AppendTo(c)
    \/ \E c \in Comps, is_available \in BOOLEAN : Mutate(c, OwnKey(c), is_available)
    \/ Frame

SpecPair == InitPair /\ [][NextPair]_vars

\* ------------------------------------------------ the scheduler's properties

\* The frame callbacks of component c requested and not yet run.
Outstanding(c) == Cardinality({i \in 1..Len(raf) : raf[i] = c})

\* The invocations of ev on component c that the last operation made.
Invoked(ev, c) == {i \in 1..Len(last.log) : last.log[i].ev = ev /\ last.log[i].c = c}

\* The state of component c is watched: watched was not given as false.
Watched(c) == comp[c].watched # "false"

\* Component c is mounted and has had mutations in a row, the first of them made
\* while it was idle (no frame callback of it requested and not yet run).
BurstFromIdle(c) == burst[c].n >= 1 /\ burst[c].idle0 /\ comp[c].mounted

\* The last operation was the frame callback of the mounted component c, run
\* right after such mutations.
FrameAfterBurst(c) ==
    /\ last.op = "frame" /\ last.c = c /\ last.was
    /\ last.burst.n >= 1 /\ last.burst.idle0

\* What the passes of c in the last operation, and its update function, were
\* handed as ledger and count: keys and n, every time.
Handed(c, keys, n) ==
    \A i \in Invoked("pass", c) \cup Invoked("update", c) :
        last.log[i].keys = keys /\ last.log[i].n = n

\* C1: N >= 1 state mutations in a row on a mounted, watched, idle component
\* leave exactly one frame callback of it requested (from the second on, a
\* mutation requests none), and the frame callback that then runs makes exactly
\* one pass and leaves no callback of the component behind.
C1_OneCallbackOnePass ==
    \A c \in Comps :
        /\ BurstFromIdle(c) =>
              /\ Outstanding(c) = 1
              /\ (last.op = "mutate" /\ last.c = c /\ burst[c].n >= 2)
                    => Invoked("requestAnimationFrame", c) = {}
        /\ FrameAfterBurst(c) =>
              /\ Cardinality(Invoked("pass", c)) = 1
              /\ Outstanding(c) = 0

C1_Witness ==
    /\ FrameAfterBurst(1)
    /\ last.burst.n >= 2
    /\ Cardinality(Invoked("pass", 1)) = 1

Touched(base, keys) ==
    [k \in LedgerKeys |-> IF keys[k] # NoEntry THEN keys[k] ELSE base[k]]

C3_MutationDefers ==
    last.op = "mutate" =>
        /\ \A i \in 1..Len(last.log) :
              last.log[i].ev \in {"onSetCallback", "requestAnimationFrame"}
        /\ Watched(last.c) => Outstanding(last.c) >= 1

C3_Witness ==
    /\ last.op = "mutate" /\ Watched(last.c) /\ comp[last.c].mounted
    /\ Invoked("requestAnimationFrame", last.c) # {}
    /\ comp[last.c].elems # <<>>

\* C4: react(s) on a mounted component leaves s as its state and has run the
\* pass on s (update or render invoked with s) when it returns, and has
\* requested no frame.
C4_ReactStateIsSynchronous ==
    \A c \in Comps :
        (last.op = "reactState" /\ last.c = c /\ last.was) =>
            /\ comp[c].state = last.arg
            /\ Cardinality(Invoked("pass", c)) = 1
            /\ \A i \in Invoked("pass", c) : last.log[i].st = last.arg
            /\ \E i \in Invoked("update", c) \cup Invoked("render", c) :
                    last.log[i].st = last.arg
            /\ Invoked("requestAnimationFrame", c) = {}

C4_Witness ==
    /\ last.op = "reactState" /\ last.c = 1 /\ last.was
    /\ last.arg = [k \in Keys |-> TRUE]
    /\ Invoked("render", 1) # {}
    /\ Invoked("didUpdate", 1) # {}

\* A pass of component c was made by the last operation and read the state the
\* component has now.
PassReadsState(c) ==
    \E i \in Invoked("pass", c) : last.log[i].st = comp[c].state

Marked(c) == Len(comp[c].elems) > 0 /\ dom[comp[c].elems[1]].h # Null

\* The update invocations of c in the last operation that returned a truthy
\* value.
UpdateAskedForRender(c) ==
    {i \in Invoked("update", c) : last.log[i].arg = "true"}

\* C11 as stated: a pass of a mounted component with render and update that a
\* frame runs (a later pass, triggered by a state change) calls update, and
\* calls render only if update returned a truthy value.
C11_AsStated ==
    \A c \in Comps :
        (/\ comp[c].render /\ comp[c].update
         /\ last.op = "frame" /\ last.c = c /\ last.was
         /\ Invoked("pass", c) # {}) =>
            /\ Invoked("update", c) # {}
            /\ Invoked("render", c) # {} => UpdateAskedForRender(c) # {}

\* C11: a pass of a component with render and update calls update exactly when
\* the component's first element carries _h when the pass starts (a render has
\* produced the root; so the first pass calls render and not update), and
\* calls render exactly when update was not called or returned a truthy value.
C11_UpdateOnceRendered ==
    [][\A c \in Comps :
          (/\ comp[c].render /\ comp[c].update
           /\ last'.c = c
           /\ (Invoked("pass", c) # {})') =>
              /\ (Invoked("update", c) # {})' <=> Marked(c)
              /\ (Invoked("render", c) # {})' <=>
                     (~Marked(c) \/ (UpdateAskedForRender(c) # {})')]_vars

C11_Witness ==
    /\ comp[1].render /\ comp[1].update
    /\ last.op = "frame" /\ last.c = 1 /\ last.was
    /\ UpdateAskedForRender(1) # {}
    /\ Invoked("render", 1) # {}

\* The calls of the last operation that change the tree.
TreeCalls ==
    {i \in 1..Len(last.log) : last.log[i].ev \in {"replaceChild", "removeChild"}}

\* C12: in a pass of a component with update and without render in which update
\* returns a falsy value, render is not called, nothing is reconciled and no
\* node of the tree changes; the ledger is emptied and the count set to 0, and
\* then didUpdate is called, once, and finds the ledger empty and the count 0.
C12_UpdateShortCircuit ==
    [][\A c \in Comps :
          (/\ ~comp[c].render /\ comp[c].update
           /\ last'.c = c /\ last'.op \in {"frame", "reactState"}
           /\ (Invoked("update", c) # {})'
           /\ (UpdateAskedForRender(c) = {})') =>
              /\ (Invoked("render", c) = {})'
              /\ (TreeCalls = {})'
              /\ dom' = dom
              /\ ~last'.err
              /\ (Cardinality(Invoked("didUpdate", c)) = 1)'
              /\ (\A i \in Invoked("didUpdate", c) :
                    /\ last.log[i].keys = EmptyLedger /\ last.log[i].n = 0
                    /\ \A j \in Invoked("update", c) : j < i)'
              /\ (Ledger(Machine(dom, comp, raf, protoKeys), c) = EmptyLedger)'
              /\ comp'[c].count = 0]_vars

C12_Witness ==
    /\ ~comp[1].render /\ comp[1].update
    /\ last.op = "frame" /\ last.c = 1
    /\ \E i \in Invoked("update", 1) :
          last.log[i].arg = "false" /\ last.log[i].keys # EmptyLedger /\ last.log[i].n = 2
    /\ Invoked("didUpdate", 1) # {}

\* ----------------------------------------------- the lifecycle's properties

\* The root of component c is a node of the page.
RootConnected(c) == Len(comp[c].elems) > 0 /\ IsConnected(dom, comp[c].elems[1])

\* C13: a pass that is not the mounting one (react(state) or a frame callback)
\* of a component whose root is absent or not connected calls neither update
\* nor render nor didUpdate, and leaves the tree, the ledger and the count as
\* they were.
C13_AbortsWhenDisconnected ==
    [][\A c \in Comps :
          (/\ ~RootConnected(c)
           /\ last'.c = c /\ last'.op \in {"reactState", "frame"}) =>
              /\ (Invoked("update", c) = {})'
              /\ (Invoked("render", c) = {})'
              /\ (Invoked("didUpdate", c) = {})'
              /\ dom' = dom
              /\ Ledger(Machine(dom, comp, raf, protoKeys), c)'
                    = Ledger(Machine(dom, comp, raf, protoKeys), c)
              /\ comp'[c].count = comp[c].count]_vars

\* The one invocation of ev on component c in the last operation (0 if there is
\* none or more than one).
The(ev, c) ==
    IF Cardinality(Invoked(ev, c)) = 1 THEN CHOOSE i \in Invoked(ev, c) : TRUE ELSE 0

\* append has just been called with component c, which was not mounted.
Appended(c) == last.op = "append" /\ last.c = c /\ ~last.was

\* willMount, render, the insertion of the root under the body and didMount
\* were each called once for c, in this order, and c is mounted.
MountOrder(c) ==
    /\ The("willMount", c) # 0 /\ The("render", c) # 0
    /\ The("appendChild", c) # 0 /\ The("didMount", c) # 0
    /\ The("willMount", c) < The("render", c)
    /\ The("render", c) < The("appendChild", c)
    /\ The("appendChild", c) < The("didMount", c)
    /\ comp[c].mounted

\* C14 as stated: append of an unmounted component calls willMount, the first
\* render, the insertion of the root and didMount, once each and in this order,
\* and leaves the component mounted.
C14_AsStated == \A c \in Comps : Appended(c) => MountOrder(c)

\* C14: append of an unmounted component that has a render function and whose
\* render returns a node (it has a root afterwards, and had none or one without
\* the first render's marker before) calls willMount, render, the insertion
\* of the root and didMount, once each and in this order; the root inserted is
\* the component's elems[0], it is a child of the target, and the component is
\* mounted.
C14_MountOrder ==
    \A c \in Comps :
        (/\ Appended(c) /\ comp[c].render
         /\ Invoked("update", c) = {}
         /\ comp[c].elems # <<>>) =>
            /\ MountOrder(c)
            /\ last.log[The("appendChild", c)].node = comp[c].elems[1]
            /\ dom[comp[c].elems[1]].parent = Body
            /\ ~last.err

C14_Witness ==
    /\ Appended(1) /\ MountOrder(1)
    /\ RootConnected(1)
    /\ Invoked("didMount", 2) # {}

\* remove() has just been called on component c, which was mounted.
Removed(c) == last.op = "remove" /\ last.c = c /\ last.was

\* The elements the last operation took out with removeChild.
Detached == {i \in 1..Len(last.log) : last.log[i].ev = "removeChild"}

\* C15: remove() on a mounted component calls willUnmount(component, true),
\* then takes every element out of its parent, empties elems, and then calls
\* didUnmount(component, true); it does not raise, and afterwards elems is
\* empty and the component is not mounted.
C15_RemovalLifecycle ==
    \A c \in Comps :
        Removed(c) =>
            /\ The("willUnmount", c) # 0 /\ The("didUnmount", c) # 0
            /\ last.log[The("willUnmount", c)].arg = "true"
            /\ last.log[The("didUnmount", c)].arg = "true"
            /\ \A i \in Detached : The("willUnmount", c) < i /\ i < The("didUnmount", c)
            /\ ~last.err
            /\ comp[c].elems = <<>>
            /\ ~comp[c].mounted

\* The unmount hooks the last operation called.
UnmountHooks ==
    {i \in 1..Len(last.log) : last.log[i].ev \in {"willUnmount", "didUnmount"}}

\* C16: an unmount hook is handed true as its second argument exactly when
\* remove() called it; the hooks the reconciler calls (trailing removal, hard
\* replace) are handed undefined. remove() on a mounted component calls
\* willUnmount with true.
C16_DirectlyRemovedFlag ==
    /\ \A i \in UnmountHooks :
          /\ last.log[i].arg = "true" <=> last.op = "remove"
          /\ last.op # "remove" => last.log[i].arg = Undef
    /\ \A c \in Comps : Removed(c) => \E i \in Invoked("willUnmount", c) : last.log[i].arg = "true"

C16_Witness ==
    /\ last.op = "reactState" /\ last.c = 1
    /\ \E i \in Invoked("willUnmount", 2), j \in Invoked("didUnmount", 2) :
          i < j /\ last.log[i].arg = Undef /\ last.log[j].arg = Undef
    /\ ~comp[2].mounted

\* C17: when a mounted component is inserted again (its parent's render holds
\* it: react is called in mounting mode on a mounted component), the operation
\* calls neither its render nor its update nor willMount nor didMount, does not
\* raise, and inserts a node for it (the clone of its root) under the parent's
\* candidate.
C17_ParentRePass ==
    \A c \in Comps :
        Invoked("stage", c) # {} =>
            /\ Invoked("render", c) = {} /\ Invoked("update", c) = {}
            /\ Invoked("willMount", c) = {} /\ Invoked("didMount", c) = {}
            /\ ~last.err
            /\ \E i \in Invoked("appendChild", c) :
                  \A j \in Invoked("stage", c) : j < i

\* The pass of component 1 re-included mounted component 2 at child position i:
\* when _replace was entered, the i-th child of the live root was the tracked
\* root of component 2 and the i-th child of the candidate was its staged clone.
ReIncluded(i) ==
    /\ Called
    /\ last.op = "react"
    /\ i \in DOMAIN rc.dom[Live].kids
    /\ i \in DOMAIN rc.dom[Cand].kids
    /\ rc.comp[2].mounted
    /\ rc.comp[2].elems = <<rc.dom[Live].kids[i]>>
    /\ rc.dom[rc.dom[Cand].kids[i]].orig = rc.dom[Live].kids[i]

\* C18: after a pass of the parent that re-includes the mounted child at the
\* same child position, the node at that position of the live tree is the
\* child's root as before (the same node, not the staged clone), the child's
\* elems is unchanged and the child got neither willUnmount nor didUnmount.
C18_ChildRootKept ==
    \A i \in 1..MaxKids :
        ReIncluded(i) =>
            /\ ~last.err
            /\ i \in DOMAIN dom[Occupant].kids
            /\ dom[Occupant].kids[i] = rc.dom[Live].kids[i]
            /\ comp[2].elems = rc.comp[2].elems
            /\ HookAt("willUnmount", 2) = {}
            /\ HookAt("didUnmount", 2) = {}

\* The components the last operation rendered or staged: the component of the
\* pass and the child components its render inserted.
InPass == {c \in Comps : Invoked("render", c) # {} \/ Invoked("stage", c) # {}}

\* The tracked root of c is in its place: c owns it, it has a parent, and it
\* stands in the tree that holds the root of the component the operation was
\* called on.
TrackedRootInPlace(c) ==
    LET n == comp[c].elems[1]
    IN  /\ dom[n].h = c
        /\ dom[n].parent # Null
        /\ Top(dom, n) = Top(dom, comp[last.c].elems[1])

\* C19: after an operation whose passes completed, every component it
\* rendered or staged that tracks a root tracks the node standing in its
\* place in the tree.
C19_TrackedRootFollowsTree ==
    ~last.err =>
        \A c \in InPass : comp[c].elems # <<>> => TrackedRootInPlace(c)

\* The last operation ran a mount hook of c.
MountHooks(c) == Invoked("willMount", c) \cup Invoked("didMount", c)

\* C20: a component whose mount hooks ran in an operation stands, once the
\* operation is over, in the connected tree of the page; and a component
\* appended under a parent that is not connected runs no mount hook and is not
\* mounted.
C20_MountsOnlyWhenConnected ==
    ~last.err =>
        /\ \A c \in Comps :
              MountHooks(c) # {} /\ comp[c].elems # <<>> =>
                  IsConnected(dom, comp[c].elems[1])
        /\ last.op = "appendDetached" =>
              MountHooks(last.c) = {} /\ ~comp[last.c].mounted

\* C21: a call of _replace, whatever the candidate and the live node and
\* whether or not the live node has a parent, comes back without raising.
C21_ReplaceNeverRaises == Called => ~last.err

\* C22: no operation on a component configured without a render function
\* raises, whatever its update function returns.
C22_AbsentConfigIsNoError ==
    last.c # Null /\ ~comp[last.c].render => ~last.err

\* A soft-replace of a pair that was not equal when _replace was entered.
SoftUnequal == SoftCase /\ ~IsEqualNode(rc.dom, Cand, Live)

\* C23: after a soft-replace of an element that was not equal to the
\* candidate, the live node has the candidate's attributes: the same names
\* with the same values, and no other.
C23_AttributesSynced ==
    SoftUnequal /\ ~last.err => dom[Live].attrs = rc.dom[Cand].attrs

\* A soft-replace that removed an attribute the candidate lacks.
C23_Witness ==
    /\ SoftUnequal
    /\ \E a \in AttrNames : rc.dom[Live].attrs[a] # NoAttr /\ rc.dom[Cand].attrs[a] = NoAttr
    /\ dom[Live].attrs = rc.dom[Cand].attrs

\* A soft-replace that overwrote the value of an attribute both nodes have.
ValueOverwritten ==
    /\ SoftUnequal
    /\ \E a \in AttrNames :
          /\ rc.dom[Live].attrs[a] # NoAttr
          /\ rc.dom[Cand].attrs[a] # NoAttr
          /\ rc.dom[Live].attrs[a] # rc.dom[Cand].attrs[a]
          /\ dom[Live].attrs[a] = rc.dom[Cand].attrs[a]

\* _replace was called on a live node that isEqualNode to the candidate.
EqualCase == Called /\ IsEqualNode(rc.dom, Cand, Live)

\* The nodes under Live and under the candidate when the call began, in
\* document order: node by node the same when the two are equal.
LiveNodes == Walk(rc.dom, Live)
CandNodes == Walk(rc.dom, Cand)

\* The nodes _copyProps writes when it enumerates children: Live and its
\* element children.
CopyTargets ==
    {Live} \cup {n \in DOMAIN rc.dom :
                    rc.dom[n].parent = Live /\ rc.dom[n].type = ElementNode}

\* C24 as stated: reconciling against an equal live node changes nothing of
\* the live node or of any node below it, properties included.
C24_AsStated ==
    EqualCase /\ ~last.err =>
        /\ TreeCalls = {}
        /\ \A i \in 1..Len(LiveNodes) : dom[LiveNodes[i]] = rc.dom[LiveNodes[i]]

\* C24: reconciling against an equal live node raises nothing, returns
\* nothing, makes no tree mutation and leaves every node under the live node
\* with its parent, children, attributes, text and owner; when the pair is
\* soft-replaceable the properties of the live node and of its element
\* children become those of the candidate's nodes, and no other property
\* changes.
C24_EqualKeepsStructure ==
    EqualCase =>
        /\ ~last.err
        /\ rc.ret = Null
        /\ TreeCalls = {}
        /\ \A i \in 1..Len(LiveNodes) :
              LET n == LiveNodes[i]
                  k == CandNodes[i]
              IN  dom[n] = [rc.dom[n] EXCEPT
                               !.p = IF SoftCase /\ n \in CopyTargets
                                     THEN rc.dom[k].p ELSE @]

\* An equal pair whose live root had its custom data overwritten.
C24_Witness ==
    /\ EqualCase
    /\ SoftCase
    /\ dom[Live].p.data # rc.dom[Live].p.data
    /\ Struct(dom, Live) = Struct(rc.dom, Live)

\* A soft-replace in which the children loop did not run: the pair was equal,
\* or the candidate had no child node.
NoChildrenPass == SoftCase /\ (EqualCase \/ rc.dom[Cand].kids = <<>>)

\* Live node n has the properties _copyProps copies from candidate node k.
Copied(n, k) ==
    LET po == dom[n].p
        pn == rc.dom[k].p
    IN  /\ po.selected = pn.selected
        /\ po.data = pn.data
        /\ HasValueProp(rc.dom[n]) =>
              /\ po.value = pn.value
              /\ po.checked = pn.checked
              /\ po.indeterminate = pn.indeterminate

\* C25: after a soft-replace in which no children loop ran, the live node has
\* the candidate's properties, and so has every element below it, at every
\* depth, from the candidate's node at the same place.
C25_PropsCopiedAtEveryDepth ==
    NoChildrenPass /\ ~last.err =>
        /\ Copied(Live, Cand)
        /\ EqualCase =>
              \A i \in 1..Len(LiveNodes) :
                  rc.dom[LiveNodes[i]].type = ElementNode =>
                      Copied(LiveNodes[i], CandNodes[i])

\* Positions in the log of the state writes that a callback of c made.
SetAt(c) == {i \in 1..Len(last.log) : last.log[i].ev = "set" /\ last.log[i].c = c}

\* After position i of the log, the pass of c went on to its end: a render
\* follows an update that returned true, and a didUpdate that finds the ledger
\* empty and the count 0 follows an update that returned false and a render
\* that returned a node.
PassCompletes(c, i) ==
    LET Later(ev) == {j \in Invoked(ev, c) : j > i}
        e == last.log[i - 1]
    IN  /\ ~last.err
        /\ (e.ev = "update" /\ e.arg = "true") => Later("render") # {}
        /\ (e.ev = "update" /\ e.arg = "false") \/ (e.ev = "render" /\ e.arg = "node")
              => \E j \in Later("didUpdate") :
                    last.log[j].keys = EmptyLedger /\ last.log[j].n = 0

\* C26 as stated: a state write made by update, render or didUpdate during a
\* pass of its component requests exactly one frame callback, the running pass
\* calls update and render no more than once each, and goes on to its end.
C26_AsStated ==
    \A c \in Comps : \A i \in SetAt(c) :
        /\ Cardinality({j \in Invoked("requestAnimationFrame", c) : j > i}) = 1
        /\ Cardinality(Invoked("update", c)) <= 1
        /\ Cardinality(Invoked("render", c)) <= 1
        /\ PassCompletes(c, i)

\* Component c is idle: it has requested no frame callback that has not run.
Idle(c) == comp[c].z = Null /\ Outstanding(c) = 0

\* The step is a react() with no argument made on c while c was idle.
ZeroFromIdle(c) == Idle(c) /\ last'.op = "react" /\ last'.c = c

\* C27 as stated: react() with no argument on an idle component requests
\* exactly one frame callback, whatever watched is.
C27_AsStated ==
    [][\A c \in Comps :
          ZeroFromIdle(c) =>
              /\ Cardinality(Invoked("requestAnimationFrame", c))' = 1
              /\ Outstanding(c)' = 1]_vars

\* C27: react() with no argument on an idle component whose watched is false
\* or was left undefined requests exactly one frame callback, and when the
\* component is mounted a pass of it follows once the frame callbacks run
\* (unless it is unmounted first); when watched is true the call requests
\* nothing and changes nothing.
C27_ZeroArgumentSchedules ==
    /\ [][\A c \in Comps :
            ZeroFromIdle(c) =>
                IF comp[c].watched = "true"
                THEN /\ last'.log = <<>>
                     /\ Outstanding(c)' = 0
                     /\ comp' = comp
                ELSE /\ Cardinality(Invoked("requestAnimationFrame", c))' = 1
                     /\ Outstanding(c)' = 1]_vars
    /\ \A c \in Comps :
          (last.op = "react" /\ last.c = c /\ comp[c].mounted
              /\ comp[c].watched # "true")
            ~> (Invoked("pass", c) # {} \/ ~comp[c].mounted)

\* A react() on a mounted component with watched left undefined has requested
\* its one frame callback.
C27_Witness ==
    /\ last.op = "react" /\ last.c = 1
    /\ comp[1].mounted
    /\ comp[1].watched = Undef
    /\ Outstanding(1) = 1
    /\ Invoked("requestAnimationFrame", 1) # {}

\* C28: every update call of a component whose watched is false is handed an
\* empty ledger and the count 0.
C28_UnwatchedLedgerEmpty ==
    \A c \in Comps :
        comp[c].watched = "false" =>
            \A i \in Invoked("update", c) :
                last.log[i].keys = EmptyLedger /\ last.log[i].n = 0

\* The calls of the watch callback that the last operation made on c's state.
Notified(c) == Invoked("onSetCallback", c)

\* C29 as stated: the watch callback of a write or a deletion is called before
\* the state changes: it finds the state as it was before the operation.
C29_AsStated ==
    [][\A c \in Comps :
          (last'.op = "mutate" /\ last'.c = c) =>
              \A i \in Notified(c)' : last'.log[i].st = comp[c].state]_vars

\* C29: a write or a deletion of key k on a watched state calls the watch
\* callback once, with (k, true) for a write and (k, false) for a deletion,
\* after the state has changed: the callback finds k written or deleted, and
\* the state it finds is the one the operation leaves.
C29_WriteThenCallback ==
    [][\A c \in Comps :
          (last'.op = "mutate" /\ last'.c = c /\ comp[c].watched # "false") =>
              /\ Cardinality(Notified(c)') = 1
              /\ \A i \in Notified(c)' :
                    LET e == last'.log[i]
                    IN  /\ e.st = comp'[c].state
                        /\ \E k \in Keys :
                              /\ e.keys = [EmptyLedger EXCEPT ![k] = e.arg]
                              /\ e.st[k] = (e.arg = "true")
                              /\ \A j \in Keys \ {k} : e.st[j] = comp[c].state[j]]_vars

\* A deletion of a key that was there has called the callback with
\* (key, false).
C29_Witness ==
    /\ last.op = "mutate" /\ last.c = 1
    /\ \E i \in Notified(1) :
          /\ last.log[i].arg = "false"
          /\ last.log[i].keys["a"] = "false"
          /\ ~comp[1].state["a"]
          /\ comp[1].state["b"]

\* The ledger of component c as it is now.
LedgerNow(c) == IF comp[c].own THEN comp[c].keys ELSE protoKeys

\* The last operation wrote or deleted at a path of c's watched state: the key
\* it named last and the flag of the operation.
DeepWrite(c) == last.op = "mutateDeep" /\ last.c = c /\ comp[c].watched # "false"
LastKey == last.arg[Len(last.arg)]
Flag(c) == IF comp[c].deep[last.arg] THEN "true" ELSE "false"

\* The callback was called once, with the last key of the path and the flag,
\* and the ledger of a component with update holds the flag under that key.
NotifiedOnce(c) ==
    /\ Cardinality(Notified(c)) = 1
    /\ \A i \in Notified(c) :
          /\ last.log[i].arg = Flag(c)
          /\ last.log[i].keys = [EmptyLedger EXCEPT ![LastKey] = Flag(c)]
    /\ comp[c].update => LedgerNow(c)[LastKey] = Flag(c)

\* C30 as stated: a write or deletion on an object nested in the state and
\* reached through keys that do not begin with "_" calls the callback once
\* with the immediate key, and the ledger holds that key with the last flag.
C30_AsStated ==
    \A c \in Comps :
        (DeepWrite(c) /\ \A i \in 1..(Len(last.arg) - 1) : last.arg[i] # "_p")
            => NotifiedOnce(c)

\* C30: a write or deletion on an object nested in the state calls the
\* callback once with the immediate key, and the ledger holds that key with
\* the last flag, when every key leading to the object does not begin with
\* "_" and holds no CalDom instance; otherwise the callback is not called and
\* no frame is requested.
C30_OneDimensional ==
    \A c \in Comps :
        DeepWrite(c) =>
            IF Wrapped(last.arg) THEN NotifiedOnce(c)
            ELSE Notified(c) = {} /\ Invoked("requestAnimationFrame", c) = {}

\* Two mutations since the last pass, the last one a deletion three levels
\* deep, share the one ledger entry "a", which holds the deletion.
C30_Witness ==
    /\ DeepWrite(1)
    /\ last.arg = <<"o", "o", "a">>
    /\ comp[1].update
    /\ comp[1].count = 2
    /\ LedgerNow(1) = [EmptyLedger EXCEPT !["a"] = "false"]
    /\ comp[1].state["a"]

\* The keys of the state whose value the get trap hands out as it is: "_p"
\* begins with "_", and "k" holds a CalDom instance.
RawKey(key) == key = "_p" \/ key = "k"

\* C31: a write or a deletion on an object read from the state through a key
\* that begins with "_" or that holds a Component is made on the raw object:
\* it calls no change callback, leaves the ledger and the count as they were
\* and requests no frame.
C31_RawValuesUnobserved ==
    [][\A c \in Comps :
          (last'.op = "mutateDeep" /\ last'.c = c /\ RawKey(last'.arg[1])) =>
              /\ last'.log = <<>>
              /\ LedgerNow(c)' = LedgerNow(c)
              /\ comp'[c].count = comp[c].count
              /\ comp'[c].z = comp[c].z
              /\ raf' = raf]_vars

\* A write on the Component held by the watched state of a mounted component
\* with an update function, which is idle afterwards.
C31_Witness ==
    /\ DeepWrite(1)
    /\ last.arg = <<"k", "a">>
    /\ comp[1].watched = "true" /\ comp[1].update /\ comp[1].mounted
    /\ comp[1].deep[<<"k", "a">>]
    /\ last.log = <<>>
    /\ Outstanding(1) = 0

RECURSIVE Flatten(_, _)
\* The items from the i-th on, an array among them replaced by its entries.
Flatten(list, i) ==
    IF i > Len(list) THEN <<>>
    ELSE (IF _isArrayLike(list[i]) THEN list[i].items ELSE <<list[i]>>)
         \o Flatten(list, i + 1)

\* Node k of heap d is what item x contributes: a text node carrying the value,
\* the raw node itself, or the root of the component.
Contributes(d, cs, k, x) ==
    CASE x.t = "node" -> k = x.ref
      [] x.t = "caldom" -> cs[x.ref].elems # <<>> /\ k = cs[x.ref].elems[1]
      [] x.t = "array" -> FALSE
      [] OTHER -> d[k].type = TextNode /\ d[k].text = x.v

\* The children the body got are, in order, what the items of exp contribute.
ItemsAppended(exp) ==
    /\ ~last'.err
    /\ Len(dom'[Body].kids) = Len(dom[Body].kids) + Len(exp)
    /\ \A i \in 1..Len(dom[Body].kids) : dom'[Body].kids[i] = dom[Body].kids[i]
    /\ \A i \in 1..Len(exp) :
          Contributes(dom', comp', dom'[Body].kids[Len(dom[Body].kids) + i], exp[i])

\* C32: append(items) leaves the first element with its previous children
\* followed, in input order, by what the items flattened one level contribute:
\* nothing for null and undefined only, one text node carrying the value for
\* every string, number or boolean, the node itself for a raw node, its root
\* for a Component.
C32_InsertionResult ==
    [][last'.op = "append" =>
          ItemsAppended(SelectSeq(Flatten(last'.arg, 1),
                              LAMBDA x : x.t \notin {"null", "undefined"}))]_vars

\* The last operation was an accessor called on the empty collection c.
AccessedEmpty(c) == last.op = "access" /\ last.c = c /\ comp[c].elems = <<>>

\* C33: a collection has the single-element accessors exactly when elems holds
\* exactly one element, and an accessor called on an empty collection does not
\* raise and calls no callback.
C33_ModeInvariant ==
    \A c \in Comps :
        /\ ~comp[c].multiple <=> Len(comp[c].elems) = 1
        /\ AccessedEmpty(c) => ~last.err /\ Invoked("callback", c) = {}

\* C34: on a collection of one element, every accessor's single-element
\* function and its iterating function leave the same heap, make the same
\* calls and return the same value.
C34_SingleEqualsMultiple ==
    \A c \in Comps :
        Len(comp[c].elems) = 1 =>
            \A call \in Calls :
                Single(Machine(dom, comp, raf, protoKeys), c, call)
                    = Multiple(Machine(dom, comp, raf, protoKeys), c, call)

\* The calls of _copyProps in the last operation that enumerated children.
CopyRecursions == {i \in 1..Len(last.log) : last.log[i].ev = "_copyProps"}

\* C35: whenever _copyProps enumerates children (no children loop ran in that
\* _replace call), the candidate and the live node have the same number of
\* element children at that moment, and the copy does not raise on a missing
\* live child; so for a candidate without children and a live node with some,
\* whose children the trailing loop has removed by then.
C35_ChildCountParity ==
    /\ \A i \in CopyRecursions : last.log[i].n = last.log[i].st[1]
    /\ CopyRecursions # {} => ~last.err

\* A candidate without children against a live node that had an element child:
\* the child was removed, and the copy enumerated no child on either side.
C35_Witness ==
    /\ SoftCase
    /\ rc.dom[Cand].kids = <<>>
    /\ ElemKids(rc.dom, Live) # <<>>
    /\ \E i \in TakenOutAt("removeChild", rc.dom[Live].kids[1]) :
          \E j \in CopyRecursions :
              i < j /\ last.log[j].node = Live /\ last.log[j].n = 0
    /\ dom[Live].kids = <<>>

\* C36: at every moment a component has at most one frame callback requested
\* and not yet run, whatever the order of state mutations, react() calls,
\* react(state) calls, insertions and frame callbacks.
C36_OneOutstandingFrame == \A c \in Comps : Outstanding(c) <= 1

\* The ledger and count that hold n writes of the key the callbacks write.
LedgerOf(n) == IF n = 0 THEN EmptyLedger ELSE [EmptyLedger EXCEPT !["a"] = "true"]

\* C37: the update function of a watched component is handed exactly the
\* mutations made since its previous invocation: of two invocations in a row,
\* the second is handed, as ledger and count, the writes that callbacks made
\* after the first one (in update, render or didUpdate of that pass, or before
\* the second one in its own operation), each of them once and none of them
\* lost.
C37_NoMutationLost ==
    [][\A c \in Comps :
          \A i \in Invoked("update", c) : \A j \in Invoked("update", c)' :
              Watched(c) =>
                  LET n == Cardinality({k \in SetAt(c) : k > i})
                           + Cardinality({k \in SetAt(c)' : k < j})
                  IN  /\ last'.log[j].n = n
                      /\ last'.log[j].keys = LedgerOf(n)]_vars

\* C38: the ledger of a component, and the ledger every call of its update
\* function is handed, hold no key that was written or deleted on the state of
\* another component.
C38_LedgerIsolation ==
    \A c \in Comps : \A k \in Keys \ {OwnKey(c)} :
        /\ LedgerNow(c)[k] = NoEntry
        /\ \A i \in Invoked("update", c) : last.log[i].keys[k] = NoEntry

\* C39: a pass of a component that stands in the page, whatever its render
\* returns (another tag or caldom-v value included), calls neither its own
\* willUnmount nor its own didUnmount and leaves it mounted.
C39_OwnPassKeepsMounted ==
    \A c \in Comps :
        (last.op = "react" /\ last.c = c /\ Invoked("pass", c) # {} /\ ~last.err) =>
            /\ Invoked("willUnmount", c) = {}
            /\ Invoked("didUnmount", c) = {}
            /\ comp[c].mounted

\* C40: when an operation takes the root of a mounted component out of the
\* page (the component's own root or a node above it was removed by remove()
\* or by the reconciler), that component gets willUnmount and didUnmount and
\* is not mounted afterwards.
C40_UnmountReachesAll ==
    [][\A c \in Comps :
          (/\ comp[c].mounted /\ RootConnected(c)
           /\ ~last'.err
           /\ ~RootConnected(c)') =>
              /\ (Invoked("willUnmount", c) # {})'
              /\ (Invoked("didUnmount", c) # {})'
              /\ ~comp'[c].mounted]_vars

====
